---- MODULE Spec2Model ----
(***************************************************************************)
(* Verification model of wip (drmnaik/wip): the repository scanner, the    *)
(* agent-session detector, the relative-time formatter, the scan           *)
(* orchestrator and the directory walker.                                  *)
(*                                                                         *)
(* Conventions                                                             *)
(*  - A Python str is a sequence of one-character strings, so that         *)
(*    lower(), startswith(), rstrip(), the `in` substring test and the     *)
(*    ordering used by list.sort() are computed character by character.    *)
(*  - An instant is an integer number of ticks; TicksPerSec ticks make a   *)
(*    second, so that instants between two whole seconds exist (datetime   *)
(*    carries microseconds).  Commit timestamps are whole seconds.         *)
(***************************************************************************)
EXTENDS Integers, Sequences, FiniteSets, TLC

VARIABLES
    \* ---- _detect_agent_sessions --------------------------------------
    repo,            \* the repository under scan: [branches |-> Seq(branch)]
    agents_config,   \* AgentsConfig: [authors, branch_patterns]
    now,             \* the scan's "now", in ticks
    sessions,        \* the list _detect_agent_sessions returned
    pc,              \* "start" before the call, "done" after it
    \* ---- _time_ago ---------------------------------------------------
    t_now,           \* reference instant, in ticks
    t_then1,         \* older instant, in ticks
    t_then2,         \* younger instant, in ticks
    label1,          \* _time_ago(t_now, t_then1)
    label2,          \* _time_ago(t_now, t_then2)
    t_pc,            \* "start" before the calls, "done" after them
    item_label,      \* _item_ago(t_then1) read at time.time() = t_now
    \* ---- discover_repos ----------------------------------------------
    fs,              \* the filesystem: directories, markers, symlinks
    directories,     \* the argument: the list of root directories
    depth,           \* the argument: the maximum depth
    d_next,          \* place in directories of the next root to walk
    repos,           \* the local list of found paths, in discovery order
    seen,            \* the local set of found paths
    discovered,      \* the list discover_repos returned
    d_pc,            \* "walking" in the loop over the roots, then "returned"
                     \* or, when an exception left discover_repos, "raised"
    \* ---- scan_repos --------------------------------------------------
    disk,            \* what each existing path holds
    repo_paths,      \* the argument: the list of paths to scan
    author_filter,   \* the argument: the author substring, <<>> for none
    s_next,          \* place in repo_paths of the next path to scan
    results,         \* the local list of snapshots
    s_pc,            \* "scanning", then "returned" or "raised"
    s_exc,           \* the exception scan_repos raised, "" for none
    s_now,           \* `now` of the latest scan_repo call, 0 before the first
    \* ---- the work list -----------------------------------------------
    w_file,          \* worklist.json: [state, items], state "missing",
                     \* "corrupt", "undecodable", "unreadable" or "ok"
    w_clock,         \* what time.time() returns next
    w_op,            \* the latest call: [name, ...arguments]
    w_ret,           \* what the latest call returned
    w_wrote,         \* whether the latest call wrote the file
    w_exit,          \* exit code of the latest `done` command
    w_exc,           \* the exception that left the latest call, "" when it returned
    \* ---- the briefing command ------------------------------------------
    b_config,        \* the loaded configuration: [directories, scan_depth]
    b_fs,            \* the directory tree discovery walks
    b_worklist,      \* worklist.json
    b_json,          \* the --json flag
    b_verbose,       \* the --verbose flag
    b_out,           \* what the command has printed, in order
    b_exit,          \* its exit code
    b_pc,            \* "start", then "exited"
    \* ---- get_provider --------------------------------------------------
    environ,         \* os.environ: variable name -> <<>> (unset) or <<value>>
    provider_name,   \* the argument
    api_key,         \* the argument, "" by default
    model,           \* the argument, "" by default
    provider,        \* what get_provider returned or raised
    l_pc,            \* "calling", then "returned" or "raised"
    \* ---- two processes on the work-item file ----------------------------
    r_file,          \* worklist.json, shared by the processes
    r_init,          \* the file as it was before either process started
    r_items,         \* per process: its local list `items`
    r_op,            \* per process: the call it makes
    r_ret,           \* per process: what the call returned (<<>> is None)
    r_pc,            \* per process: "start", "loaded", "done"
    r_clock,         \* time.time(), one tick per reading
    r_log,           \* the file accesses so far, <<process, "load"|"save">>
    \* ---- save_config / load_config --------------------------------------
    c_config,        \* the WipConfig handed to save_config
    c_file,          \* config.toml: <<>> when missing, else <<its lines>>
    c_loaded,        \* what load_config returned
    c_pc             \* "start", "saved", "loaded"

detVars  == <<repo, agents_config, now, sessions, pc>>
timeVars == <<t_now, t_then1, t_then2, label1, label2, t_pc, item_label>>
discVars == <<fs, directories, depth, d_next, repos, seen, discovered, d_pc>>
scanVars == <<disk, repo_paths, author_filter, s_next, results, s_pc, s_exc, s_now>>
workVars == <<w_file, w_clock, w_op, w_ret, w_wrote, w_exit, w_exc>>
briefVars == <<b_config, b_fs, b_worklist, b_json, b_verbose, b_out, b_exit, b_pc>>
llmVars  == <<environ, provider_name, api_key, model, provider, l_pc>>
raceVars == <<r_file, r_init, r_items, r_op, r_ret, r_pc, r_clock, r_log>>
confVars == <<c_config, c_file, c_loaded, c_pc>>
vars     == <<detVars, timeVars, discVars, scanVars, workVars, briefVars, llmVars, raceVars, confVars>>

\* what each component leaves alone
detRest  == <<timeVars, discVars, scanVars, workVars, briefVars, llmVars, raceVars, confVars>>
timeRest == <<detVars, discVars, scanVars, workVars, briefVars, llmVars, raceVars, confVars>>
discRest == <<detVars, timeVars, scanVars, workVars, briefVars, llmVars, raceVars, confVars>>
scanRest == <<detVars, timeVars, discVars, workVars, briefVars, llmVars, raceVars, confVars>>
workRest == <<detVars, timeVars, discVars, scanVars, briefVars, llmVars, raceVars, confVars>>
briefRest == <<detVars, timeVars, discVars, scanVars, workVars, llmVars, raceVars, confVars>>
llmRest  == <<detVars, timeVars, discVars, scanVars, workVars, briefVars, raceVars, confVars>>
raceRest == <<detVars, timeVars, discVars, scanVars, workVars, briefVars, llmVars, confVars>>
confRest == <<detVars, timeVars, discVars, scanVars, workVars, briefVars, llmVars, raceVars>>

(***************************************************************************)
(* Bounds of the model.                                                    *)
(***************************************************************************)
TicksPerSec == 2
MaxCommits  == 3
MaxBranches == 2
MaxTimed    == 2
MaxMult     == 2
MaxRoots    == 2
MaxDepth    == 2
MaxPaths    == 3
MaxCount    == 20        \* largest line count in a numstat line
MaxItems    == 2         \* most work items ever added

(***************************************************************************)
(* Python str primitives.                                                  *)
(***************************************************************************)
Ascii ==
    <<"-", ".", "/",
      "0", "1", "2", "3", "4", "5", "6", "7", "8", "9",
      "A", "B", "C", "D", "E", "F", "G", "H", "I", "J", "K", "L", "M",
      "N", "O", "P", "Q", "R", "S", "T", "U", "V", "W", "X", "Y", "Z",
      "_",
      "a", "b", "c", "d", "e", "f", "g", "h", "i", "j", "k", "l", "m",
      "n", "o", "p", "q", "r", "s", "t", "u", "v", "w", "x", "y", "z">>

\* ord(c), up to an order-preserving renumbering of the characters in use
OrdTable == [c \in {Ascii[i] : i \in 1..Len(Ascii)} |->
                CHOOSE i \in 1..Len(Ascii) : Ascii[i] = c]
Ord(c) == OrdTable[c]

\* str.lower() on one character: "A".."Z" sit 27 places before "a".."z"
LowerTable == [c \in {Ascii[i] : i \in 1..Len(Ascii)} |->
                IF OrdTable[c] >= 14 /\ OrdTable[c] <= 39
                THEN Ascii[OrdTable[c] + 27] ELSE c]
LowerChar(c) == LowerTable[c]

\* str.lower()
Lower(s) == [i \in 1..Len(s) |-> LowerChar(s[i])]

\* str.startswith(prefix)
StartsWith(s, prefix) ==
    /\ Len(prefix) <= Len(s)
    /\ \A i \in 1..Len(prefix) : s[i] = prefix[i]

\* `sub in s`
Contains(sub, s) ==
    \E k \in 0..(Len(s) - Len(sub)) :
        \A i \in 1..Len(sub) : s[k + i] = sub[i]

\* str.rstrip(ch): every trailing ch removed
RStrip(s, ch) ==
    LET keep == {n \in 0..Len(s) : \A i \in (n + 1)..Len(s) : s[i] = ch}
        n    == CHOOSE m \in keep : \A o \in keep : m <= o
    IN  SubSeq(s, 1, n)

\* s < t as Python compares two str: by the first differing character,
\* a proper prefix first
StrLess(s, t) ==
    \E k \in 1..(Len(t)) :
        /\ k <= Len(s) + 1
        /\ \A i \in 1..(k - 1) : s[i] = t[i]
        /\ \/ k = Len(s) + 1
           \/ k <= Len(s) /\ Ord(s[k]) < Ord(t[k])

(***************************************************************************)
(* _time_ago (scanner.py 421-433).                                         *)
(***************************************************************************)
\* int(delta.total_seconds()): truncation toward zero
TotalSecondsInt(delta) ==
    IF delta >= 0 THEN delta \div TicksPerSec
    ELSE -((-delta) \div TicksPerSec)

\* the f-strings "{n}m ago", "{n}h ago", "{n}d ago"
Fmt(n, unit) == ToString(n) \o unit \o " ago"

\* A label is kept with the number and the unit it was formatted from.
Label(n, unit, text) == [n |-> n, unit |-> unit, text |-> text]

\* no label yet
NoLabel == Label(0, "none", "")

\* the variant that reads delta.seconds (the seconds field of the normalised
\* timedelta, 0..86399) in place of delta.total_seconds()
TimeAgoDeltaSeconds(now_, then_) ==
    LET seconds == ((now_ - then_) \div TicksPerSec) % 86400
        minutes == seconds \div 60
        hours   == minutes \div 60
        days    == hours \div 24
    IN  IF seconds < 60 THEN Label(0, "now", "just now")
        ELSE IF minutes < 60 THEN Label(minutes, "m", Fmt(minutes, "m"))
        ELSE IF hours < 24 THEN Label(hours, "h", Fmt(hours, "h"))
        ELSE Label(days, "d", Fmt(days, "d"))

TimeAgo(now_, then_) ==
    LET seconds == TotalSecondsInt(now_ - then_)
        minutes == seconds \div 60
        hours   == minutes \div 60
        days    == hours \div 24
    IN  IF seconds < 60 THEN Label(0, "now", "just now")
        ELSE IF minutes < 60 THEN Label(minutes, "m", Fmt(minutes, "m"))
        ELSE IF hours < 24 THEN Label(hours, "h", Fmt(hours, "h"))
        ELSE Label(days, "d", Fmt(days, "d"))

(***************************************************************************)
(* _item_ago (display.py 211-223).                                         *)
(***************************************************************************)
\* int(x) of a float: truncation toward zero
IntOfFloat(x) ==
    IF x >= 0 THEN x \div TicksPerSec
    ELSE -((-x) \div TicksPerSec)

\* the variant that rounds to the nearest second, halves upward
ItemAgoRounded(time_, timestamp) ==
    LET delta   == (2 * (time_ - timestamp) + TicksPerSec) \div (2 * TicksPerSec)
        minutes == delta \div 60
        hours   == minutes \div 60
        days    == hours \div 24
    IN  IF delta < 60 THEN Label(0, "now", "just now")
        ELSE IF minutes < 60 THEN Label(minutes, "m", Fmt(minutes, "m"))
        ELSE IF hours < 24 THEN Label(hours, "h", Fmt(hours, "h"))
        ELSE Label(days, "d", Fmt(days, "d"))

\* _item_ago(timestamp), time.time() reading time_
ItemAgo(time_, timestamp) ==
    LET delta   == IntOfFloat(time_ - timestamp)
        minutes == delta \div 60
        hours   == minutes \div 60
        days    == hours \div 24
    IN  IF delta < 60 THEN Label(0, "now", "just now")
        ELSE IF minutes < 60 THEN Label(minutes, "m", Fmt(minutes, "m"))
        ELSE IF hours < 24 THEN Label(hours, "h", Fmt(hours, "h"))
        ELSE Label(days, "d", Fmt(days, "d"))

(***************************************************************************)
(* The relative-time formatter applied to two instants.                    *)
(***************************************************************************)
\* elapsed whole seconds around every threshold of _time_ago: k units
\* of a second, a minute, an hour or a day, one second either side
ElapsedSeconds ==
    {k * u + d : k \in 0..MaxMult, u \in {1, 60, 3600, 86400}, d \in {-1, 0, 1}}

\* elapsed times in ticks: the whole seconds and the instants between them
Elapsed == {s * TicksPerSec + f : s \in ElapsedSeconds, f \in 0..(TicksPerSec - 1)}

\* reference instants: a whole second and the instants up to the next one
NowInstants == {100000 * TicksPerSec + f : f \in 0..(TicksPerSec - 1)}

TimeIdle ==
    /\ t_now = 0 /\ t_then1 = 0 /\ t_then2 = 0
    /\ label1 = "" /\ label2 = "" /\ t_pc = "idle" /\ item_label = NoLabel

TimeInit ==
    /\ t_now \in NowInstants
    /\ t_then1 \in {t_now - e : e \in Elapsed}
    /\ t_then2 \in {t_now - e : e \in Elapsed}
    /\ label1 = "" /\ label2 = ""
    /\ t_pc = "start"
    /\ item_label = NoLabel

\* label = _time_ago(now, then), for both instants
TimeAgoCall ==
    /\ t_pc = "start"
    /\ label1' = TimeAgo(t_now, t_then1)
    /\ label2' = TimeAgo(t_now, t_then2)
    /\ t_pc' = "done"
    /\ UNCHANGED <<t_now, t_then1, t_then2, item_label>>
    /\ UNCHANGED timeRest

\* ago = _item_ago(item.created_at) (display.py 88, 154), the clock read
\* at t_now
ItemAgoCall ==
    /\ t_pc \in {"start", "done"}
    /\ item_label = NoLabel
    /\ item_label' = ItemAgo(t_now, t_then1)
    /\ UNCHANGED <<t_now, t_then1, t_then2, label1, label2, t_pc>>
    /\ UNCHANGED timeRest

(***************************************************************************)
(* AgentsConfig (config.py 30-38) and the names used in the repositories.  *)
(***************************************************************************)
\* AgentsConfig(): the built-in author substrings and branch prefixes
DefaultAgentsConfig ==
    [authors |->
        << <<"c","l","a","u","d","e">>,
           <<"c","o","p","i","l","o","t">>,
           <<"c","u","r","s","o","r">>,
           <<"d","e","v","i","n">>,
           <<"c","o","d","e","x">>,
           <<"g","i","t","h","u","b","-","a","c","t","i","o","n","s">>,
           <<"b","o","t">> >>,
     branch_patterns |->
        << <<"a","g","e","n","t","/">>,
           <<"c","l","a","u","d","e","/">>,
           <<"c","o","p","i","l","o","t","/">>,
           <<"d","e","v","i","n","/">>,
           <<"c","u","r","s","o","r","/">>  >>]

\* a user's [agents] section in which "ci-bot" is no agent author
ClaudeOnlyConfig ==
    [authors |-> << <<"C","L","A","U","D","E">> >>,
     branch_patterns |-> << <<"c","l","a","u","d","e","/">> >>]

\* a user's [agents] section whose author pattern ends in a dash
DashConfig ==
    [authors |-> << <<"C","I","-">> >>,
     branch_patterns |-> << <<"a","g","e","n","t","/">> >>]

AgentsConfigs == {DefaultAgentsConfig, ClaudeOnlyConfig, DashConfig}

AuthorClaude == <<"C","l","a","u","d","e">>
AuthorCiBot  == <<"c","i","-","b","o","t">>
AuthorAlice  == <<"A","l","i","c","e">>
AuthorNames  == {AuthorClaude, AuthorCiBot, AuthorAlice}

BranchMain   == <<"m","a","i","n">>
BranchClaude == <<"c","l","a","u","d","e","/","f","i","x","-","b","u","g">>
BranchAgent  == <<"a","g","e","n","t","/","x">>
BranchNames  == {BranchMain, BranchClaude, BranchAgent}

(***************************************************************************)
(* _match_author_agent, _match_branch_agent (scanner.py 403-418).          *)
(***************************************************************************)
MinOf(S) == CHOOSE m \in S : \A o \in S : m <= o
MaxOf(S) == CHOOSE m \in S : \A o \in S : m >= o

\* the first pattern, in list order, that occurs in the lower-cased author
\* name gives the agent: the pattern lower-cased, trailing dashes removed
MatchAuthorAgent(author_name, patterns) ==
    LET author_lower == Lower(author_name)
        hits == {i \in 1..Len(patterns) : Contains(Lower(patterns[i]), author_lower)}
    IN  IF hits = {} THEN <<>>
        ELSE RStrip(Lower(patterns[MinOf(hits)]), "-")

\* the first prefix, in list order, the branch name starts with gives the
\* agent: the prefix without its trailing slashes
MatchBranchAgent(branch_name, branch_patterns) ==
    LET hits == {i \in 1..Len(branch_patterns) :
                    StartsWith(branch_name, branch_patterns[i])}
    IN  IF hits = {} THEN <<>>
        ELSE RStrip(branch_patterns[MinOf(hits)], "/")

(***************************************************************************)
(* _detect_agent_sessions (scanner.py 325-400).                            *)
(*                                                                         *)
(* A branch is [name, commits, corrupt_at]: commits is the history in the  *)
(* order repo.iter_commits(ref) yields it, and corrupt_at is the place in  *)
(* it at which reading the history raises (0: nowhere).  A commit is       *)
(* [author, committed_date, files]: committed_date in whole seconds,       *)
(* files the "files" entry of commit.stats.total, or -1 when computing     *)
(* commit.stats raises.                                                    *)
(***************************************************************************)
\* iter_commits(ref, max_count=100)
MaxWalk == 100

\* the variant in which the branch name wins over the author
BranchFirstAgent(author_agent, branch_agent) ==
    IF branch_agent # <<>> THEN branch_agent ELSE author_agent

\* agent = author_agent or branch_agent
EffectiveAgent(author_agent, branch_agent) ==
    IF author_agent # <<>> THEN author_agent ELSE branch_agent

\* files = commit.stats.total.get("files", 0), 0 when that raises
CommitFiles(commit) == IF commit.files < 0 THEN 0 ELSE commit.files

\* the variant that starts a new bucket for every commit
BucketPerCommit(map, key, item) == Append(map, [key |-> key, data |-> <<item>>])

\* sessions_map[key].append(item), the bucket created on first use; the
\* dict is kept as the sequence of its entries in insertion order
MapAppend(map, key, item) ==
    IF \E j \in 1..Len(map) : map[j].key = key
    THEN [j \in 1..Len(map) |->
            IF map[j].key = key
            THEN [map[j] EXCEPT !.data = Append(@, item)]
            ELSE map[j]]
    ELSE Append(map, [key |-> key, data |-> <<item>>])

\* one turn of the loop over the commits of a branch, on the i-th commit;
\* the loop's state is the dict and whether the loop was left (by the
\* break, or by an exception caught outside the loop)
WalkStep(state, branch, branch_agent, config, i) ==
    IF state.left THEN state
    ELSE IF branch.corrupt_at = i
    THEN [state EXCEPT !.left = TRUE]             \* except Exception: continue
    ELSE
        LET commit       == branch.commits[i]
            author_agent == MatchAuthorAgent(commit.author, config.authors)
            agent        == EffectiveAgent(author_agent, branch_agent)
        IN  IF agent = <<>>
            THEN IF branch_agent = <<>>
                 THEN state                        \* continue
                 ELSE [state EXCEPT !.left = TRUE] \* break
            ELSE [state EXCEPT !.map =
                    MapAppend(@, <<agent, branch.name>>,
                              <<commit.committed_date, CommitFiles(commit)>>)]

\* the turns of the loop on the commits lo..hi, in order
RECURSIVE WalkCommits(_, _, _, _, _, _)
WalkCommits(state, branch, branch_agent, config, lo, hi) ==
    IF lo > hi THEN state
    ELSE IF lo = hi THEN WalkStep(state, branch, branch_agent, config, lo)
    ELSE
        LET mid   == (lo + hi) \div 2
            lower == WalkCommits(state, branch, branch_agent, config, lo, mid)
        IN  IF lower.left THEN lower
            ELSE WalkCommits(lower, branch, branch_agent, config, mid + 1, hi)

\* for commit in repo.iter_commits(ref, max_count=100): the dict after
\* the walk of one branch
WalkBranch(map, branch, branch_agent, config) ==
    LET last == IF Len(branch.commits) < MaxWalk THEN Len(branch.commits) ELSE MaxWalk
    IN  WalkCommits([map |-> map, left |-> FALSE],
                    branch, branch_agent, config, 1, last).map

\* the loop over repo.branches, from the b-th on
RECURSIVE WalkBranches(_, _, _, _)
WalkBranches(map, branches, config, b) ==
    IF b > Len(branches) THEN map
    ELSE
        LET branch       == branches[b]
            branch_agent == MatchBranchAgent(branch.name, config.branch_patterns)
        IN  WalkBranches(WalkBranch(map, branch, branch_agent, config),
                         branches, config, b + 1)

\* sum(fc for _, fc in commit_data[lo..hi])
RECURSIVE SumFilesFrom(_, _, _)
SumFilesFrom(data, lo, hi) ==
    IF lo > hi THEN 0
    ELSE IF lo = hi THEN data[lo][2]
    ELSE SumFilesFrom(data, lo, (lo + hi) \div 2)
            + SumFilesFrom(data, (lo + hi) \div 2 + 1, hi)

SumFiles(data) == SumFilesFrom(data, 1, Len(data))

\* datetime.fromtimestamp(ts, tz=timezone.utc)
FromTimestamp(ts) == ts * TicksPerSec

\* the variant whose first threshold is inclusive
StatusInclusiveHour(now_, last_ts) ==
    LET age == now_ - FromTimestamp(last_ts)
    IN  IF age <= 3600 * TicksPerSec THEN "active"
        ELSE IF age < 24 * 3600 * TicksPerSec THEN "recent"
        ELSE "stale"

\* hours_since_last = (now - last_dt).total_seconds() / 3600, compared
\* with 1 and 24: the age in ticks compared with one and 24 hours of ticks
SessionStatus(now_, last_ts) ==
    LET age == now_ - FromTimestamp(last_ts)
    IN  IF age < 3600 * TicksPerSec THEN "active"
        ELSE IF age < 24 * 3600 * TicksPerSec THEN "recent"
        ELSE "stale"

\* one AgentSession from one (agent, branch) bucket
BuildSession(entry, now_) ==
    LET timestamps == {entry.data[j][1] : j \in 1..Len(entry.data)}
        first_ts   == MinOf(timestamps)
        last_ts    == MaxOf(timestamps)
    IN  [agent            |-> entry.key[1],
         branch           |-> entry.key[2],
         commit_count     |-> Len(entry.data),
         files_changed    |-> SumFiles(entry.data),
         first_commit_ago |-> TimeAgo(now_, FromTimestamp(first_ts)),
         last_commit_ago  |-> TimeAgo(now_, FromTimestamp(last_ts)),
         first_commit_ts  |-> first_ts,
         last_commit_ts   |-> last_ts,
         status           |-> SessionStatus(now_, last_ts)]

\* sessions.sort(key=last_commit_ts, reverse=True): a stable sort, so
\* sessions of equal key keep their order
RECURSIVE SortSessions(_)
SortSessions(list) ==
    IF list = <<>> THEN <<>>
    ELSE
        LET rest   == SortSessions(SubSeq(list, 1, Len(list) - 1))
            s      == list[Len(list)]
            before == {j \in 0..Len(rest) :
                          \A m \in 1..j : rest[m].last_commit_ts >= s.last_commit_ts}
            at     == MaxOf(before)
        IN  SubSeq(rest, 1, at) \o <<s>> \o SubSeq(rest, at + 1, Len(rest))

DetectAgentSessions(repo_, config, now_) ==
    LET sessions_map == WalkBranches(<<>>, repo_.branches, config, 1)
        nonempty     == SelectSeq(sessions_map, LAMBDA e : e.data # <<>>)
        built        == [j \in 1..Len(nonempty) |-> BuildSession(nonempty[j], now_)]
    IN  SortSessions(built)

(***************************************************************************)
(* The repositories the detector is run on.                                *)
(***************************************************************************)
\* whole second of the scans' "now"
NowSecond == 100000

\* histories of at most n commits drawn from pool
Histories(pool, n) == UNION {[1..k -> pool] : k \in 0..n}

\* one commit per author: an agent's commit half a minute old, a bot's two
\* hours old, a human's more than a day old
CommitBy(author) ==
    [author |-> author,
     hexsha |-> IF author = AuthorClaude THEN <<"c","1","a","0","d","e","9","9","f">>
                ELSE IF author = AuthorCiBot THEN <<"b","0","7","b","0","7","4","2","e">>
                ELSE <<"a","1","1","c","e","0","0","7","d">>,
     message |-> IF author = AuthorAlice THEN <<"Fix parser", "", "Handles tabs.">>
                 ELSE <<"Update">>,
     committed_date |->
        IF author = AuthorClaude THEN NowSecond - 30
        ELSE IF author = AuthorCiBot THEN NowSecond - 7200
        ELSE NowSecond - 90000,
     files |->
        IF author = AuthorClaude THEN 2
        ELSE IF author = AuthorCiBot THEN 1 ELSE 3]

AuthoredCommits == {CommitBy(a) : a \in AuthorNames}

\* commit times either side of the one-hour and the 24-hour threshold, and
\* one ahead of "now" (a committer's clock running fast)
CommitSeconds ==
    {NowSecond - 86400, NowSecond - 86399, NowSecond - 3600, NowSecond - 3599,
     NowSecond + 5}

\* commits of one agent author at those times, with and without stats
TimedCommits ==
    {[author |-> AuthorClaude, hexsha |-> <<"c","1","a","0","d","e","9","9","f">>,
      message |-> <<"Update">>, committed_date |-> t, files |-> f] :
        t \in CommitSeconds, f \in {-1, 2}}

Branch(name, commits, corrupt_at) ==
    [name |-> name, commits |-> commits, corrupt_at |-> corrupt_at]

\* sequences of 1..MaxBranches distinct branch names
BranchNameLists ==
    UNION {{ns \in [1..k -> BranchNames] :
                \A i, j \in 1..k : i # j => ns[i] # ns[j]} :
           k \in 1..MaxBranches}

\* repositories of several branches: the first with any history of 1 to
\* MaxCommits commits, the others with one commit
AuthoredRepos ==
    UNION {{[branches |-> [j \in 1..Len(ns) |-> Branch(ns[j], hs[j], 0)]] :
              hs \in {h \in [1..Len(ns) -> Histories(AuthoredCommits, MaxCommits) \ {<<>>}] :
                         \A j \in 2..Len(ns) : Len(h[j]) = 1}} :
           ns \in BranchNameLists}

\* one agent-named branch whose commits differ in time and stats
TimedRepos ==
    {[branches |-> <<Branch(BranchClaude, h, 0)>>] :
        h \in Histories(TimedCommits, MaxTimed) \ {<<>>}}

\* one branch longer than the walk: a head commit, padding, a tail commit
\* that is the MaxWalk-th or the one after it
LongRepos ==
    {[branches |->
        <<Branch(n, <<CommitBy(h)>> \o [j \in 1..p |-> CommitBy(f)] \o <<CommitBy(t)>>, 0)>>] :
        n \in {BranchMain, BranchClaude},
        h \in AuthorNames, f \in AuthorNames, t \in AuthorNames,
        p \in {MaxWalk - 2, MaxWalk - 1}}

\* one branch whose history cannot be read past some commit
CorruptRepos ==
    UNION {{[branches |-> <<Branch(n, h, c)>>] : c \in 1..Len(h), n \in BranchNames} :
           h \in Histories(AuthoredCommits, MaxCommits)}

DetectInputs ==
    {[repo |-> r, config |-> c, now |-> NowSecond * TicksPerSec] :
        r \in AuthoredRepos \cup LongRepos \cup CorruptRepos, c \in AgentsConfigs}
    \cup
    {[repo |-> r, config |-> DefaultAgentsConfig, now |-> NowSecond * TicksPerSec + f] :
        r \in TimedRepos, f \in 0..(TicksPerSec - 1)}

DetectIdle ==
    /\ repo = [branches |-> <<>>]
    /\ agents_config = DefaultAgentsConfig
    /\ now = 0 /\ sessions = <<>> /\ pc = "idle"

DetectInit ==
    /\ \E x \in DetectInputs :
        /\ repo = x.repo
        /\ agents_config = x.config
        /\ now = x.now
    /\ sessions = <<>>
    /\ pc = "start"

\* sessions = _detect_agent_sessions(repo, agents_config, now)
DetectAgentSessionsCall ==
    /\ pc = "start"
    /\ sessions' = DetectAgentSessions(repo, agents_config, now)
    /\ pc' = "done"
    /\ UNCHANGED <<repo, agents_config, now>>
    /\ UNCHANGED detRest

(***************************************************************************)
(* The filesystem discover_repos walks.                                    *)
(*                                                                         *)
(* A path is the sequence of its component names.  fs.dirs holds the       *)
(* directories by their canonical path, fs.git those that contain a .git   *)
(* entry, fs.unlistable those whose listing raises PermissionError,        *)
(* fs.unsearchable those without search permission (a stat of anything     *)
(* inside fails with EACCES),                                              *)
(* fs.files the regular files, and fs.links maps the path of each symbolic *)
(* link to the canonical path of the directory it points to.               *)
(***************************************************************************)
NameW      == <<"w">>
NameA      == <<"a">>
NameB      == <<"b">>
NameSub    == <<"s","u","b">>
NameLink   == <<"l","i","n","k">>
NameHidden == <<".","c","a","c","h","e">>
NameVenv   == <<"v","e","n","v">>
NameNotes  == <<"n","o","t","e","s">>
NameGone   == <<"g","o","n","e">>

\* os.path / pathlib: the canonical path of p, every symbolic link on the
\* way replaced by the directory it points to (Path.resolve())
RECURSIVE Canonical(_, _)
Canonical(fs_, p) ==
    IF p = <<>> THEN <<>>
    ELSE
        LET q == Append(Canonical(fs_, SubSeq(p, 1, Len(p) - 1)), p[Len(p)])
        IN  IF q \in DOMAIN fs_.links THEN fs_.links[q] ELSE q

\* Path.is_dir(): follows symbolic links
IsDir(fs_, p) == Canonical(fs_, p) \in fs_.dirs

\* (directory / ".git").exists()
HasGitMarker(fs_, p) == Canonical(fs_, p) \in fs_.git

\* Path.exists() and Path.is_dir() on p raise PermissionError: the stat
\* fails with EACCES, which pathlib re-raises (it ignores only ENOENT,
\* ENOTDIR, EBADF and ELOOP); so when a directory above p cannot be searched
StatRaises(fs_, p) ==
    LET c == Canonical(fs_, SubSeq(p, 1, Len(p) - 1))
    IN  \E k \in 1..Len(c) : SubSeq(c, 1, k) \in fs_.unsearchable

\* the names directory.iterdir() yields
EntryNames(fs_, p) ==
    LET c == Canonical(fs_, p)
    IN  {q[Len(q)] : q \in {r \in fs_.dirs \cup fs_.files \cup DOMAIN fs_.links :
                                Len(r) = Len(c) + 1 /\ SubSeq(r, 1, Len(c)) = c}}

\* str(path): "/" before every component
RECURSIVE PathStr(_)
PathStr(p) ==
    IF p = <<>> THEN <<>>
    ELSE PathStr(SubSeq(p, 1, Len(p) - 1)) \o <<"/">> \o p[Len(p)]

\* list.sort() / sorted() on str: ascending
RECURSIVE SortStrs(_)
SortStrs(S) ==
    IF S = {} THEN <<>>
    ELSE LET least == CHOOSE x \in S : \A y \in S : y = x \/ StrLess(x, y)
         IN  <<least>> \o SortStrs(S \ {least})

\* repos.sort(): the list sorted ascending
SortList(list) ==
    LET n == Len(list)
        \* place of the i-th element: the elements that sort before it, and
        \* the equal ones that come before it in the list
        rank(i) == Cardinality({j \in 1..n :
                        StrLess(list[j], list[i]) \/ (list[j] = list[i] /\ j < i)}) + 1
    IN  [k \in 1..n |-> list[CHOOSE i \in 1..n : rank(i) = k]]

NoiseNames ==
    {<<"n","o","d","e","_","m","o","d","u","l","e","s">>,
     <<"_","_","p","y","c","a","c","h","e","_","_">>,
     <<".","v","e","n","v">>,
     <<"v","e","n","v">>}

\* name.startswith(".") or name in ("node_modules", "__pycache__", ".venv", "venv")
Skipped(name) == StartsWith(name, <<".">>) \/ name \in NoiseNames

(***************************************************************************)
(* _walk_for_repos (discovery.py 28-59); acc is [repos, seen].             *)
(***************************************************************************)
RECURSIVE WalkForRepos(_, _, _, _)
RECURSIVE WalkEntries(_, _, _, _, _, _)

WalkForRepos(fs_, directory, remaining_depth, acc) ==
    IF acc.raised THEN acc                        \* the exception is on its way up
    ELSE IF remaining_depth < 0 THEN acc
    ELSE IF StatRaises(fs_, Append(directory, <<".","g","i","t">>))
    THEN [acc EXCEPT !.raised = TRUE]             \* git_dir.exists() raises
    ELSE IF HasGitMarker(fs_, directory)
    THEN LET abs_path == PathStr(directory)
         IN  IF abs_path \notin acc.seen
             THEN [repos |-> Append(acc.repos, abs_path),
                   seen  |-> acc.seen \cup {abs_path},
                   raised |-> FALSE]
             ELSE acc
    ELSE IF Canonical(fs_, directory) \in fs_.unlistable
    THEN acc                                      \* except PermissionError: return
    ELSE WalkEntries(fs_, directory, SortStrs(EntryNames(fs_, directory)),
                     remaining_depth, acc, 1)

\* for entry in entries, from the k-th on
WalkEntries(fs_, directory, entries, remaining_depth, acc, k) ==
    IF k > Len(entries) \/ acc.raised THEN acc
    ELSE
        LET name  == entries[k]
            entry == Append(directory, name)
        IN  IF ~IsDir(fs_, entry) \/ Skipped(name)
            THEN WalkEntries(fs_, directory, entries, remaining_depth, acc, k + 1)
            ELSE WalkEntries(fs_, directory, entries, remaining_depth,
                             WalkForRepos(fs_, entry, remaining_depth - 1, acc),
                             k + 1)

(***************************************************************************)
(* discover_repos (discovery.py 9-25), one root per step.                  *)
(***************************************************************************)
\* the directory tree: /w with the children a (with a/sub inside), b,
\* .cache and venv (each with a repository inside), the file notes and,
\* possibly, the symbolic link "link"
TreeDirs ==
    {<<NameW>>, <<NameW, NameA>>, <<NameW, NameA, NameSub>>, <<NameW, NameB>>,
     <<NameW, NameHidden>>, <<NameW, NameVenv>>}

Filesystems ==
    {[dirs       |-> TreeDirs,
      git        |-> g \cup {<<NameW, NameHidden>>, <<NameW, NameVenv>>},
      unlistable |-> u,
      unsearchable |-> x,
      files      |-> {<<NameW, NameNotes>>},
      links      |-> l] :
        g \in SUBSET {<<NameW>>, <<NameW, NameA>>, <<NameW, NameA, NameSub>>,
                      <<NameW, NameB>>},
        u \in {{}, {<<NameW, NameB>>}},
        x \in {{}, {<<NameW, NameB>>}},
        l \in {<<>>} \cup
              {[p \in {<<NameW, NameLink>>} |-> t] :
                  t \in {<<NameW, NameA>>, <<NameW, NameA, NameSub>>}}}

\* the roots a caller may name: directories, the link, a file, and a path
\* that does not exist
RootChoices ==
    {<<NameW>>, <<NameW, NameA>>, <<NameW, NameA, NameSub>>, <<NameW, NameB>>,
     <<NameW, NameLink>>, <<NameW, NameNotes>>, <<NameGone>>}

DiscoverIdle ==
    /\ fs = [dirs |-> {}, git |-> {}, unlistable |-> {}, unsearchable |-> {},
              files |-> {}, links |-> <<>>]
    /\ directories = <<>> /\ depth = 0 /\ d_next = 0
    /\ repos = <<>> /\ seen = {} /\ discovered = <<>> /\ d_pc = "idle"

DiscoverInit ==
    /\ fs \in Filesystems
    /\ directories \in UNION {[1..k -> RootChoices] : k \in 0..MaxRoots}
    /\ depth \in 0..MaxDepth
    /\ d_next = 1
    /\ repos = <<>> /\ seen = {} /\ discovered = <<>>
    /\ d_pc = "walking"

\* one turn of `for directory in directories`
DiscoverRoot ==
    /\ d_pc = "walking"
    /\ d_next <= Len(directories)
    /\ LET root == Canonical(fs, directories[d_next])
           acc0 == [repos |-> repos, seen |-> seen, raised |-> FALSE]
           acc  == IF StatRaises(fs, root) THEN [acc0 EXCEPT !.raised = TRUE]
                   ELSE IF ~IsDir(fs, root) THEN acc0
                   ELSE WalkForRepos(fs, root, depth, acc0)
       IN  /\ repos' = acc.repos
           /\ seen' = acc.seen
           /\ d_pc' = IF acc.raised THEN "raised" ELSE d_pc
    /\ d_next' = d_next + 1
    /\ UNCHANGED <<fs, directories, depth, discovered>>
    /\ UNCHANGED discRest

\* repos.sort(); return repos
DiscoverReturn ==
    /\ d_pc = "walking"
    /\ d_next > Len(directories)
    /\ discovered' = SortList(repos)
    /\ d_pc' = "returned"
    /\ UNCHANGED <<fs, directories, depth, d_next, repos, seen>>
    /\ UNCHANGED discRest

(***************************************************************************)
(* The sub-queries of scan_repo (scanner.py 160-322).                      *)
(*                                                                         *)
(* A repository is a record:                                               *)
(*   branches   repo.branches, each [name, commits, corrupt_at]            *)
(*   head       the name of the checked-out branch, <<>> when HEAD is      *)
(*              detached                                                   *)
(*   detached   the history of HEAD when it is detached                    *)
(*   untracked  repo.untracked_files                                       *)
(*   unstaged   repo.index.diff(None), each [a_path, b_path, change_type]  *)
(*   staged     repo.index.diff("HEAD")                                    *)
(*   unstaged_numstat, staged_numstat                                      *)
(*              the lines of `git diff [--cached] --numstat`, each the     *)
(*              sequence of its tab-separated fields                       *)
(*   stash      the lines of `git stash list`                              *)
(*   tracking   <<>> without an upstream, else [name, counts]: counts the  *)
(*              whitespace-separated fields of `git rev-list --left-right  *)
(*              --count`                                                   *)
(*   failing    the git commands that end in GitCommandError               *)
(* File paths and stash lines are opaque strings; a commit's message is    *)
(* the sequence of the lines of commit.message.strip().                    *)
(***************************************************************************)
\* the history repo.iter_commits() walks from HEAD, with the place where
\* reading it raises
HeadBranch(repo_) ==
    IF repo_.head = <<>> THEN Branch(<<>>, repo_.detached, 0)
    ELSE IF \E b \in 1..Len(repo_.branches) : repo_.branches[b].name = repo_.head
    THEN repo_.branches[CHOOSE b \in 1..Len(repo_.branches) :
                            repo_.branches[b].name = repo_.head]
    ELSE Branch(repo_.head, <<>>, 0)              \* no commit yet

\* repo.head.is_valid()
HeadIsValid(repo_) == HeadBranch(repo_).commits # <<>>

\* _collect_stashes
CollectStashes(repo_) ==
    IF "stash_list" \in repo_.failing THEN [count |-> 0, entries |-> <<>>]
    ELSE IF repo_.stash = <<>> THEN [count |-> 0, entries |-> <<>>]
    ELSE [count |-> Len(repo_.stash), entries |-> repo_.stash]

\* int(s) if s != "-" else 0
NumstatCount(s) == IF s = "-" THEN 0 ELSE CHOOSE n \in 0..MaxCount : ToString(n) = s

\* _parse_numstat: path -> <<insertions, deletions>>, a later line of a
\* path replacing an earlier one; lines of fewer than 3 fields are skipped
ParseNumstat(lines) ==
    LET good  == {k \in 1..Len(lines) : Len(lines[k]) >= 3}
        paths == {lines[k][3] : k \in good}
    IN  [p \in paths |->
            LET k == MaxOf({j \in good : lines[j][3] = p})
            IN  <<NumstatCount(lines[k][1]), NumstatCount(lines[k][2])>>]

\* _STATUS_MAP.get(change_type, "modified")
StatusOf(change_type) ==
    CASE change_type = "M" -> "modified"
      [] change_type = "A" -> "added"
      [] change_type = "D" -> "deleted"
      [] change_type = "R" -> "renamed"
      [] OTHER -> "modified"

FileChange(path, status, stage, insertions, deletions) ==
    [path |-> path, status |-> status, stage |-> stage,
     insertions |-> insertions, deletions |-> deletions]

\* one FileChange per diff item, with the numstat counts of its path
DiffEntries(diff, numstat, stage) ==
    [k \in 1..Len(diff) |->
        LET path  == IF diff[k].b_path # "" THEN diff[k].b_path ELSE diff[k].a_path
            stats == IF path \in DOMAIN numstat THEN numstat[path] ELSE <<0, 0>>
        IN  FileChange(path, StatusOf(diff[k].change_type), stage, stats[1], stats[2])]

UntrackedEntries(repo_) ==
    [k \in 1..Len(repo_.untracked) |->
        FileChange(repo_.untracked[k], "untracked", "untracked", 0, 0)]

\* _collect_changed_files; the result, or the exception it lets through
CollectChangedFiles(repo_) ==
    IF "untracked_files" \in repo_.failing
    THEN [raised |-> TRUE, files |-> <<>>]
    ELSE IF ~HeadIsValid(repo_)
    THEN [raised |-> FALSE, files |-> UntrackedEntries(repo_)]
    ELSE
        LET unstaged_numstat ==
                IF "diff_numstat" \in repo_.failing THEN <<>>
                ELSE ParseNumstat(repo_.unstaged_numstat)
            unstaged ==
                IF "index_diff_worktree" \in repo_.failing THEN <<>>
                ELSE DiffEntries(repo_.unstaged, unstaged_numstat, "unstaged")
            staged_numstat ==
                IF "diff_cached_numstat" \in repo_.failing THEN <<>>
                ELSE ParseNumstat(repo_.staged_numstat)
            staged ==
                IF "index_diff_head" \in repo_.failing THEN <<>>
                ELSE DiffEntries(repo_.staged, staged_numstat, "staged")
        IN  [raised |-> FALSE,
             files  |-> unstaged \o staged \o UntrackedEntries(repo_)]

\* _ahead_behind
AheadBehind(repo_) ==
    IF repo_.head = <<>> THEN <<0, 0>>                      \* TypeError
    ELSE IF repo_.tracking = <<>> THEN <<0, 0>>
    ELSE IF "rev_list" \in repo_.failing THEN <<0, 0>>      \* GitCommandError
    ELSE IF Len(repo_.tracking.counts) # 2 THEN <<0, 0>>    \* ValueError
    ELSE <<repo_.tracking.counts[1], repo_.tracking.counts[2]>>

BranchInfo(name, last_commit_ago, timestamp) ==
    [name |-> name, last_commit_ago |-> last_commit_ago, timestamp |-> timestamp]

\* the variant that leaves the list in the order of repo.branches
KeepOrder(list) == list

\* sort(key=timestamp, reverse=True): stable, most recent first
RECURSIVE SortByTimestamp(_)
SortByTimestamp(list) ==
    IF list = <<>> THEN <<>>
    ELSE
        LET rest   == SortByTimestamp(SubSeq(list, 1, Len(list) - 1))
            x      == list[Len(list)]
            before == {j \in 0..Len(rest) :
                          \A m \in 1..j : rest[m].timestamp >= x.timestamp}
            at     == MaxOf(before)
        IN  SubSeq(rest, 1, at) \o <<x>> \o SubSeq(rest, at + 1, Len(rest))

\* _recent_branches
RecentBranches(repo_, now_, recent_days) ==
    LET cutoff  == now_ - recent_days * 86400 * TicksPerSec
        readable == SelectSeq(repo_.branches,
                        LAMBDA ref : ref.corrupt_at # 1
                            /\ FromTimestamp(ref.commits[1].committed_date) >= cutoff)
        infos   == [k \in 1..Len(readable) |->
                      BranchInfo(readable[k].name,
                          TimeAgo(now_, FromTimestamp(readable[k].commits[1].committed_date)),
                          readable[k].commits[1].committed_date)]
        sorted  == SortByTimestamp(infos)
    IN  IF repo_.head = <<>> THEN sorted                     \* TypeError: pass
        ELSE SelectSeq(sorted, LAMBDA b : b.name # repo_.head)

\* iter_commits(max_count=50), and the cap on the files of one commit
MaxRecent == 50
MaxCommitFiles == 20

CommitInfo(sha, message, ago, timestamp, body, files) ==
    [sha |-> sha, message |-> message, ago |-> ago, timestamp |-> timestamp,
     body |-> body, files |-> files]

\* "\n".join(lines).strip(), kept as lines: the empty lines at either end
\* are dropped
StripLines(lines) ==
    LET full == {k \in 1..Len(lines) : lines[k] # ""}
    IN  IF full = {} THEN <<>> ELSE SubSeq(lines, MinOf(full), MaxOf(full))

\* the variant of one turn that applies the author filter before the age
\* test, so that an old commit of another author does not stop the walk
FilterBeforeAge(state, history, author, now_, i) ==
    IF state.left THEN state
    ELSE
        LET commit == history.commits[i]
            cutoff == now_ - 86400 * TicksPerSec
        IN  IF author # <<>> /\ ~Contains(Lower(author), Lower(commit.author))
            THEN state
            ELSE IF FromTimestamp(commit.committed_date) < cutoff
            THEN [state EXCEPT !.left = TRUE]
            ELSE [state EXCEPT !.commits = Append(@,
                    CommitInfo(SubSeq(commit.hexsha, 1, 7), commit.message[1],
                        TimeAgo(now_, FromTimestamp(commit.committed_date)),
                        commit.committed_date, <<>>, <<>>))]

\* one turn of the loop of _recent_commits on the i-th commit from HEAD;
\* the loop's state is the list and whether the loop was left
RecentStep(state, history, author, now_, i) ==
    IF state.left THEN state
    ELSE IF history.corrupt_at = i
    THEN [state EXCEPT !.left = TRUE]                        \* except Exception: pass
    ELSE
        LET commit == history.commits[i]
            cutoff == now_ - 86400 * TicksPerSec
        IN  IF FromTimestamp(commit.committed_date) < cutoff
            THEN [state EXCEPT !.left = TRUE]                \* break
            ELSE IF author # <<>> /\ ~Contains(Lower(author), Lower(commit.author))
            THEN state                                       \* continue
            ELSE [state EXCEPT !.commits = Append(@,
                    CommitInfo(
                        SubSeq(commit.hexsha, 1,
                               IF Len(commit.hexsha) < 7 THEN Len(commit.hexsha) ELSE 7),
                        commit.message[1],
                        TimeAgo(now_, FromTimestamp(commit.committed_date)),
                        commit.committed_date,
                        StripLines(SubSeq(commit.message, 2, Len(commit.message))),
                        \* the first 20 of the commit's changed paths, by
                        \* their place in commit.stats.files; none when
                        \* computing the stats raises
                        IF commit.files < 0 THEN <<>>
                        ELSE [k \in 1..(IF commit.files < MaxCommitFiles
                                        THEN commit.files ELSE MaxCommitFiles) |-> k]))]

RECURSIVE RecentWalk(_, _, _, _, _, _)
RecentWalk(state, history, author, now_, lo, hi) ==
    IF lo > hi THEN state
    ELSE IF lo = hi THEN RecentStep(state, history, author, now_, lo)
    ELSE
        LET mid   == (lo + hi) \div 2
            lower == RecentWalk(state, history, author, now_, lo, mid)
        IN  IF lower.left THEN lower
            ELSE RecentWalk(lower, history, author, now_, mid + 1, hi)

\* _recent_commits
RecentCommits(repo_, author, now_) ==
    IF ~HeadIsValid(repo_) THEN <<>>
    ELSE
        LET history == HeadBranch(repo_)
            last    == IF Len(history.commits) < MaxRecent
                       THEN Len(history.commits) ELSE MaxRecent
        IN  RecentWalk([commits |-> <<>>, left |-> FALSE],
                       history, author, now_, 1, last).commits

(***************************************************************************)
(* scan_repo (scanner.py 72-142).                                          *)
(*                                                                         *)
(* disk maps each path that exists to what is there: [kind |-> "repo",     *)
(* repo |-> ...] for a repository root, [kind |-> "dir"] for a directory   *)
(* that holds no repository.  A path outside its domain does not exist.    *)
(***************************************************************************)
\* Path(repo_path).name: what follows the last "/"
PathName(path) ==
    LET cuts == {i \in 1..Len(path) : path[i] = "/"}
    IN  IF cuts = {} THEN path ELSE SubSeq(path, MaxOf(cuts) + 1, Len(path))

\* Repo(repo_path): git.Repo raises NoSuchPathError when the path does not
\* exist and InvalidGitRepositoryError when it exists and is no repository
OpenRepo(disk_, repo_path) ==
    IF repo_path \notin DOMAIN disk_ THEN "NoSuchPathError"
    ELSE IF disk_[repo_path].kind # "repo" THEN "InvalidGitRepositoryError"
    ELSE "ok"

\* except InvalidGitRepositoryError: return None
CaughtOnOpen(opened) == opened = "InvalidGitRepositoryError"

\* the outcome of scan_repo: [kind |-> "status", status |-> RepoStatus],
\* [kind |-> "none"] for None, [kind |-> "raise", exc |-> ...] for an
\* exception that leaves scan_repo
ScanRepo(disk_, repo_path, author, recent_days, config, now_) ==
    LET opened == OpenRepo(disk_, repo_path) IN
    IF CaughtOnOpen(opened) THEN [kind |-> "none"]
    ELSE IF opened # "ok" THEN [kind |-> "raise", exc |-> opened]
    ELSE
        LET repo_   == disk_[repo_path].repo
            stashes == CollectStashes(repo_)
            changed == CollectChangedFiles(repo_)
            ab      == AheadBehind(repo_)
        IN  IF \/ "untracked_files" \in repo_.failing
               \/ "index_diff_head" \in repo_.failing /\ HeadIsValid(repo_)
               \/ "index_diff_worktree" \in repo_.failing
               \/ changed.raised
            THEN [kind |-> "raise", exc |-> "GitCommandError"]
            ELSE [kind |-> "status", status |->
               [path            |-> repo_path,
                name            |-> PathName(repo_path),
                current_branch  |-> IF repo_.head = <<>>
                                    THEN <<"d","e","t","a","c","h","e","d"," ","H","E","A","D">>
                                    ELSE repo_.head,
                dirty_files     |-> Len(repo_.unstaged),
                untracked_files |-> Len(repo_.untracked),
                staged_files    |-> IF HeadIsValid(repo_) THEN Len(repo_.staged) ELSE 0,
                stash_count     |-> stashes.count,
                ahead           |-> ab[1],
                behind          |-> ab[2],
                last_commit_ago |-> IF HeadIsValid(repo_)
                                    THEN TimeAgo(now_, FromTimestamp(
                                            HeadBranch(repo_).commits[1].committed_date)).text
                                    ELSE "",
                recent_branches |-> RecentBranches(repo_, now_, recent_days),
                recent_commits  |-> RecentCommits(repo_, author, now_),
                agent_sessions  |-> DetectAgentSessions(repo_, config, now_),
                changed_files   |-> changed.files,
                stash_entries   |-> stashes.entries]]

(***************************************************************************)
(* scan_repos (scanner.py 145-157), one path per step.                     *)
(***************************************************************************)
PathA    == <<"/","w","/","a">>
PathB    == <<"/","w","/","b">>
PathDocs == <<"/","w","/","d","o","c","s">>
PathGone == <<"/","w","/","g","o","n","e">>

\* a repository without a commit, with two untracked files
EmptyRepo ==
    [branches |-> <<>>, head |-> BranchMain, detached |-> <<>>,
     untracked |-> <<"a.txt", "b.txt">>, unstaged |-> <<>>, staged |-> <<>>,
     unstaged_numstat |-> <<>>, staged_numstat |-> <<>>,
     stash |-> <<>>, tracking |-> <<>>, failing |-> {}]

\* a repository at work: two branches, changes in the work tree and the
\* index, a stash, an upstream one commit behind
BusyRepo ==
    [branches |-> <<Branch(BranchClaude,
                           <<CommitBy(AuthorCiBot), CommitBy(AuthorAlice)>>, 0),
                    Branch(BranchMain,
                           <<CommitBy(AuthorClaude), CommitBy(AuthorAlice)>>, 0)>>,
     head |-> BranchMain, detached |-> <<>>,
     untracked |-> <<"notes.md">>,
     unstaged |-> <<[a_path |-> "x.py", b_path |-> "x.py", change_type |-> "M"],
                    [a_path |-> "old.py", b_path |-> "", change_type |-> "D"]>>,
     staged |-> <<[a_path |-> "", b_path |-> "new.py", change_type |-> "A"],
                  [a_path |-> "img.png", b_path |-> "img.png", change_type |-> "T"]>>,
     unstaged_numstat |-> <<<<"3", "1", "x.py">>, <<"0", "7", "old.py">>>>,
     staged_numstat |-> <<<<"12", "0", "new.py">>, <<"-", "-", "img.png">>>>,
     stash |-> <<"stash@{0}: WIP on main: Update">>,
     tracking |-> [name |-> "origin/main", counts |-> <<1, 0>>],
     failing |-> {}]

\* a repository on a detached HEAD whose stash list cannot be read
DetachedRepo ==
    [branches |-> <<Branch(BranchAgent, <<CommitBy(AuthorAlice)>>, 0)>>,
     head |-> <<>>, detached |-> <<CommitBy(AuthorClaude), CommitBy(AuthorAlice)>>,
     untracked |-> <<>>, unstaged |-> <<>>, staged |-> <<>>,
     unstaged_numstat |-> <<>>, staged_numstat |-> <<>>,
     stash |-> <<"stash@{0}: WIP">>, tracking |-> <<>>,
     failing |-> {"stash_list"}]

SampleRepos == {EmptyRepo, BusyRepo, DetachedRepo}

\* what is on disk: a repository at /w/a, a repository or a plain
\* directory at /w/b, a plain directory at /w/docs, nothing at /w/gone
Disks ==
    {[p \in {PathA, PathB, PathDocs} |->
        IF p = PathA THEN [kind |-> "repo", repo |-> ra]
        ELSE IF p = PathB THEN b
        ELSE [kind |-> "dir"]] :
        ra \in SampleRepos,
        b \in {[kind |-> "repo", repo |-> BusyRepo], [kind |-> "dir"]}}

ScanIdle ==
    /\ disk = <<>> /\ repo_paths = <<>> /\ author_filter = <<>>
    /\ s_next = 0 /\ results = <<>> /\ s_pc = "idle" /\ s_exc = "" /\ s_now = 0

\* the git commands of scan_repo that can end in GitCommandError
FailFlags ==
    {"stash_list", "untracked_files", "diff_numstat", "index_diff_worktree",
     "diff_cached_numstat", "index_diff_head", "rev_list"}

\* the repository at work with one git command failing
FaultyRepos == {[BusyRepo EXCEPT !.failing = {f}] : f \in FailFlags}

\* a repository without a commit whose index holds a file that was added
\* and then edited in the work tree, next to its untracked files
IndexedEmptyRepo ==
    [EmptyRepo EXCEPT
        !.untracked = <<"a.txt", "b.txt", "c.txt">>,
        !.unstaged = <<[a_path |-> "new.py", b_path |-> "new.py", change_type |-> "M"]>>,
        !.unstaged_numstat = <<<<"1", "0", "new.py">>>>]

\* repositories without a commit, with 0 to 3 untracked files
UnbornRepos ==
    {[EmptyRepo EXCEPT !.untracked = u] :
        u \in {<<>>, <<"a.txt">>, <<"a.txt", "b.txt">>, <<"a.txt", "b.txt", "c.txt">>}}
    \cup {IndexedEmptyRepo}

\* /w/a holds a repository under study, /w/b the repository at work
DiskOf(r) ==
    [p \in {PathA, PathB} |->
        IF p = PathA THEN [kind |-> "repo", repo |-> r]
        ELSE [kind |-> "repo", repo |-> BusyRepo]]

\* a commit of CommitBy(author) made at second t
CommitAt(author, t) == [CommitBy(author) EXCEPT !.committed_date = t]

\* commits of a human and of an agent: half an hour old, exactly 24 hours
\* old at the whole second, dated ahead of "now", and one 25 hours old
RecentPool ==
    {CommitAt(a, t) : a \in {AuthorAlice, AuthorClaude},
                      t \in {NowSecond - 1800, NowSecond - 86400, NowSecond + 5}}
    \cup {CommitBy(AuthorAlice)}

\* a repository on branch main with the given history and nothing else
RepoOfHistory(h) ==
    [EmptyRepo EXCEPT !.branches = <<Branch(BranchMain, h, 0)>>, !.untracked = <<>>]

\* every history of 1 to MaxCommits commits of the pool, in any order of
\* their dates
HistoryRepos == {RepoOfHistory(h) : h \in Histories(RecentPool, MaxCommits) \ {<<>>}}

\* histories longer than the walk of _recent_commits: a head commit,
\* padding, and a tail commit that is the MaxRecent-th or the one after
LongHistoryRepos ==
    {RepoOfHistory(<<h>> \o [j \in 1..p |-> f] \o <<t>>) :
        h \in {CommitAt(AuthorAlice, NowSecond - 1800), CommitBy(AuthorClaude)},
        f \in {CommitAt(AuthorAlice, NowSecond - 1800), CommitBy(AuthorClaude)},
        t \in {CommitAt(AuthorAlice, NowSecond - 1800), CommitBy(AuthorClaude)},
        p \in {MaxRecent - 2, MaxRecent - 1}}

\* branch tips either side of the recent_days boundary (14 days), fresh,
\* and dated ahead of "now"
TipSeconds ==
    {NowSecond - 14 * 86400, NowSecond - 14 * 86400 - 1, NowSecond - 30, NowSecond + 5}

\* repositories of 1..MaxBranches branches of one commit each, HEAD on the
\* first branch or detached, the tip of a further branch unreadable or not
BranchRepos ==
    UNION {{[EmptyRepo EXCEPT
                !.untracked = <<>>,
                !.branches = [j \in 1..Len(ns) |->
                                Branch(ns[j], <<CommitAt(AuthorAlice, tips[j])>>,
                                       IF j = c THEN 1 ELSE 0)],
                !.head = IF d THEN <<>> ELSE ns[1],
                !.detached = IF d THEN <<CommitBy(AuthorClaude)>> ELSE <<>>] :
              tips \in [1..Len(ns) -> TipSeconds],
              d \in BOOLEAN,
              c \in {0} \cup 2..Len(ns)} :
           ns \in BranchNameLists}

RecentRepos == HistoryRepos \cup LongHistoryRepos \cup BranchRepos

\* scan_repos over one repository whose commits and branch tips lie around
\* the 24-hour and the recent_days boundaries
ScanInitRecent ==
    /\ disk \in {[p \in {PathA} |-> [kind |-> "repo", repo |-> r]] : r \in RecentRepos}
    /\ repo_paths = <<PathA>>
    /\ author_filter \in {<<>>, <<"a","l","i","c","e">>}

\* scan_repos over lists of valid, non-repository and missing paths
ScanInitPaths ==
    /\ disk \in Disks
    /\ repo_paths \in UNION {[1..k -> {PathA, PathB, PathDocs, PathGone}] : k \in 0..MaxPaths}
    /\ author_filter \in {<<>>, <<"a","l","i","c","e">>}

\* scan_repos over a repository with a failing command, or without a
\* commit, followed by a healthy one
ScanInitFaulty ==
    /\ disk \in {DiskOf(r) : r \in FaultyRepos \cup UnbornRepos}
    /\ repo_paths = <<PathA, PathB>>
    /\ author_filter \in {<<>>, <<"a","l","i","c","e">>}

ScanInit ==
    /\ ScanInitPaths \/ ScanInitFaulty \/ ScanInitRecent
    /\ s_next = 1
    /\ results = <<>>
    /\ s_pc = "scanning"
    /\ s_exc = ""
    /\ s_now = 0

\* the variant that puts the new snapshot first
Prepend(list, status) == <<status>> \o list

\* results.append(status)
Collect(list, status) == Append(list, status)

\* one turn of `for path in repo_paths`: scan_repo with the defaults of
\* the configuration, at some instant "now"
ScanReposStep ==
    /\ s_pc = "scanning"
    /\ s_next <= Len(repo_paths)
    /\ \E n \in NowInstants :
        LET out == ScanRepo(disk, repo_paths[s_next], author_filter, 14,
                            DefaultAgentsConfig, n)
        IN  /\ CASE out.kind = "status" ->
                       /\ results' = Collect(results, out.status)
                       /\ s_next' = s_next + 1
                       /\ UNCHANGED <<s_pc, s_exc>>
                 [] out.kind = "none" ->
                       /\ s_next' = s_next + 1
                       /\ UNCHANGED <<results, s_pc, s_exc>>
                 [] out.kind = "raise" ->
                       /\ s_pc' = "raised"
                       /\ s_exc' = out.exc
                       /\ UNCHANGED <<results, s_next>>
            /\ s_now' = n
    /\ UNCHANGED <<disk, repo_paths, author_filter>>
    /\ UNCHANGED scanRest

\* return results
ScanReposReturn ==
    /\ s_pc = "scanning"
    /\ s_next > Len(repo_paths)
    /\ s_pc' = "returned"
    /\ UNCHANGED <<disk, repo_paths, author_filter, s_next, results, s_exc, s_now>>
    /\ UNCHANGED scanRest

(***************************************************************************)
(* The work list (worklist.py).                                            *)
(*                                                                         *)
(* A WorkItem is a record [id, description, created_at, status, repo,      *)
(* completed_at]; an optional field is <<>> for None and <<v>> for a       *)
(* value.  The file holds what json.dumps wrote of the items' dicts, and   *)
(* building a WorkItem of each dict json.loads reads gives the items back  *)
(* field by field: ints, floats, strings and null all survive that round   *)
(* trip, so the file's content is kept as the sequence of items.           *)
(***************************************************************************)
\* load_worklist: [] when the file is missing or cannot be read or parsed
LoadWorklist(file) == IF file.state = "ok" THEN file.items ELSE <<>>

\* WORKLIST_PATH.read_text() on bytes that are not text: UnicodeDecodeError,
\* a ValueError that `except (json.JSONDecodeError, OSError)` lets through
LoadRaises(file) == file.state = "undecodable"

\* WORKLIST_PATH.write_text() on a file whose permissions allow neither
\* reading nor writing: PermissionError
SaveRaises(file) == file.state = "unreadable"

\* the variant that writes the open items only
SaveOpenOnly(items) ==
    [state |-> "ok", items |-> SelectSeq(items, LAMBDA i : i.status = "open")]

\* save_worklist
SaveWorklist(items) == [state |-> "ok", items |-> items]

\* the variant that numbers after the open items only
NextOpenId(items) ==
    LET open == {items[k].id : k \in {j \in 1..Len(items) : items[j].status = "open"}}
    IN  IF open = {} THEN 1 ELSE MaxOf(open) + 1

\* _next_id
NextId(items) ==
    IF items = <<>> THEN 1
    ELSE MaxOf({items[k].id : k \in 1..Len(items)}) + 1

\* WorkItem(id, description, created_at, repo=repo)
WorkItem(id, description, created_at, repo_opt) ==
    [id |-> id, description |-> description, created_at |-> created_at,
     status |-> "open", repo |-> repo_opt, completed_at |-> <<>>]

\* add_item: the file it leaves, what it returns, whether it wrote
AddItem(file, description, repo_opt, time) ==
    LET items == LoadWorklist(file)
        item  == WorkItem(NextId(items), description, time, repo_opt)
    IN  IF LoadRaises(file)
        THEN [file |-> file, ret |-> <<>>, wrote |-> FALSE, exc |-> "UnicodeDecodeError"]
        ELSE IF SaveRaises(file)
        THEN [file |-> file, ret |-> <<>>, wrote |-> FALSE, exc |-> "PermissionError"]
        ELSE [file |-> SaveWorklist(Append(items, item)),
              ret |-> <<item>>, wrote |-> TRUE, exc |-> ""]

\* the variant that stamps an item again when it is already done
CompleteAgain(file, item_id, time) ==
    LET items == LoadWorklist(file)
        hits  == {k \in 1..Len(items) : items[k].id = item_id}
    IN  IF LoadRaises(file)
        THEN [file |-> file, ret |-> <<>>, wrote |-> FALSE, exc |-> "UnicodeDecodeError"]
        ELSE IF hits = {} THEN [file |-> file, ret |-> <<>>, wrote |-> FALSE, exc |-> ""]
        ELSE LET k    == MinOf(hits)
                 item == [items[k] EXCEPT !.status = "done", !.completed_at = <<time>>]
             IN  [file |-> SaveWorklist([items EXCEPT ![k] = item]),
                  ret |-> <<item>>, wrote |-> TRUE, exc |-> ""]

\* complete_item: the first item of that id decides; None is <<>>
CompleteItem(file, item_id, time) ==
    LET items == LoadWorklist(file)
        hits  == {k \in 1..Len(items) : items[k].id = item_id}
    IN  IF LoadRaises(file)
        THEN [file |-> file, ret |-> <<>>, wrote |-> FALSE, exc |-> "UnicodeDecodeError"]
        ELSE IF hits = {} THEN [file |-> file, ret |-> <<>>, wrote |-> FALSE, exc |-> ""]
        ELSE LET k == MinOf(hits) IN
             IF items[k].status = "done"
             THEN [file |-> file, ret |-> <<>>, wrote |-> FALSE, exc |-> ""]
             ELSE LET item == [items[k] EXCEPT !.status = "done",
                                               !.completed_at = <<time>>]
                  IN  [file |-> SaveWorklist([items EXCEPT ![k] = item]),
                       ret |-> <<item>>, wrote |-> TRUE, exc |-> ""]

\* get_items
GetItems(file, include_done) ==
    LET items == LoadWorklist(file)
    IN  IF ~include_done
        THEN SelectSeq(items, LAMBDA i : i.status # "done")
        ELSE items

\* os.path.realpath: /w/link is a symbolic link to /w/a
RealPath(path) == IF path = "/w/link" THEN "/w/a" ELSE path

\* get_items_for_repo
GetItemsForRepo(file, repo_path, include_done) ==
    LET normalized == RealPath(repo_path)
    IN  SelectSeq(GetItems(file, include_done),
                  LAMBDA i : i.repo # <<>> /\ i.repo[1] # "" /\ RealPath(i.repo[1]) = normalized)

Descriptions == {"fix parser", "write docs"}
RepoOptions  == {<<>>, <<"/w/link">>}
ItemIds      == 0..(MaxItems + 1)

WorkIdle ==
    /\ w_file = [state |-> "idle", items |-> <<>>]
    /\ w_clock = 0 /\ w_op = [name |-> "idle"] /\ w_ret = <<>>
    /\ w_wrote = FALSE /\ w_exit = 0 /\ w_exc = ""

\* before the first command: no file yet, or one that is not JSON text
\* ("corrupt"), that is not text at all ("undecodable"), or that the user
\* may neither read nor write ("unreadable")
WorkInit ==
    /\ w_file \in {[state |-> "missing", items |-> <<>>],
                   [state |-> "corrupt", items |-> <<>>],
                   [state |-> "undecodable", items |-> <<>>],
                   [state |-> "unreadable", items |-> <<>>]}
    /\ w_clock = 1
    /\ w_op = [name |-> "start"]
    /\ w_ret = <<>>
    /\ w_wrote = FALSE
    /\ w_exit = 0
    /\ w_exc = ""

\* add_item(description, repo); at most MaxItems items are ever added
AddItemCall ==
    /\ w_op.name # "idle"
    /\ Len(LoadWorklist(w_file)) < MaxItems
    /\ \E description \in Descriptions, repo_opt \in RepoOptions :
        LET out == AddItem(w_file, description, repo_opt, w_clock)
        IN  /\ w_file' = out.file
            /\ w_ret' = out.ret
            /\ w_wrote' = out.wrote
            /\ w_exc' = out.exc
            /\ w_op' = [name |-> "add_item", description |-> description,
                        repo |-> repo_opt]
            \* the clock's reading matters where it is stored
            /\ w_clock' = IF out.wrote THEN w_clock + 1 ELSE w_clock
    /\ UNCHANGED w_exit
    /\ UNCHANGED workRest

\* the `done` command (cli.py 79-88): complete_item, then the message and
\* the exit code
DoneCommand ==
    /\ w_op.name # "idle"
    /\ \E item_id \in ItemIds :
        LET out == CompleteItem(w_file, item_id, w_clock)
        IN  /\ w_file' = out.file
            /\ w_ret' = out.ret
            /\ w_wrote' = out.wrote
            /\ w_exit' = IF out.ret = <<>> THEN 1 ELSE 0
            /\ w_exc' = out.exc
            /\ w_clock' = IF out.wrote THEN w_clock + 1 ELSE w_clock
            /\ w_op' = [name |-> "complete_item", item_id |-> item_id]
    /\ UNCHANGED workRest

\* get_items(include_done)
GetItemsCall ==
    /\ w_op.name # "idle"
    /\ \E include_done \in BOOLEAN :
        /\ w_ret' = GetItems(w_file, include_done)
        /\ w_op' = [name |-> "get_items", include_done |-> include_done]
    /\ w_exc' = IF LoadRaises(w_file) THEN "UnicodeDecodeError" ELSE ""
    /\ w_wrote' = FALSE
    /\ UNCHANGED <<w_file, w_clock, w_exit>>
    /\ UNCHANGED workRest

\* get_items_for_repo(repo_path, include_done)
GetItemsForRepoCall ==
    /\ w_op.name # "idle"
    /\ \E repo_path \in {"/w/a", "/w/link", "/w/b"}, include_done \in BOOLEAN :
        /\ w_ret' = GetItemsForRepo(w_file, repo_path, include_done)
        /\ w_op' = [name |-> "get_items_for_repo", repo_path |-> repo_path,
                    include_done |-> include_done]
    /\ w_exc' = IF LoadRaises(w_file) THEN "UnicodeDecodeError" ELSE ""
    /\ w_wrote' = FALSE
    /\ UNCHANGED <<w_file, w_clock, w_exit>>
    /\ UNCHANGED workRest

(***************************************************************************)
(* The briefing command (cli.py 261-288, display.py 44-53).                *)
(***************************************************************************)
\* discover_repos as one call: the roots from the k-th on, then the sort
RECURSIVE DiscoverFrom(_, _, _, _, _)
DiscoverFrom(fs_, dirs, depth_, k, acc) ==
    IF k > Len(dirs) THEN SortList(acc.repos)
    ELSE
        LET root == Canonical(fs_, dirs[k])
        IN  DiscoverFrom(fs_, dirs, depth_, k + 1,
                IF ~IsDir(fs_, root) THEN acc
                ELSE WalkForRepos(fs_, root, depth_, acc))

DiscoverRepos(fs_, dirs, depth_) ==
    DiscoverFrom(fs_, dirs, depth_, 1, [repos |-> <<>>, seen |-> {}, raised |-> FALSE])

\* scan_repos as one call, the paths from the k-th on: the list, or the
\* exception that ended it
RECURSIVE ScanReposFrom(_, _, _, _, _, _, _, _)
ScanReposFrom(disk_, paths, author, recent_days, config, now_, k, acc) ==
    IF k > Len(paths) THEN [kind |-> "returned", results |-> acc]
    ELSE
        LET out == ScanRepo(disk_, paths[k], author, recent_days, config, now_)
        IN  IF out.kind = "raise" THEN out
            ELSE ScanReposFrom(disk_, paths, author, recent_days, config, now_, k + 1,
                    IF out.kind = "status" THEN Collect(acc, out.status) ELSE acc)

\* render_json: the document printed, {"repos": [...], "worklist": [...]}
RenderJson(repos_, wip_items) ==
    [kind |-> "json", repos |-> repos_, worklist |-> wip_items]

\* render_briefing: the header's count and what is handed on to the
\* sections
RenderBriefing(repos_, verbose, wip_items, repo_items) ==
    [kind |-> "briefing", count |-> Len(repos_), verbose |-> verbose,
     wip_items |-> wip_items, repo_items |-> repo_items]

\* typer.echo
Echo(text) == [kind |-> "text", text |-> text]

\* the repository found at each discovered path: the one at work under
\* /w/a, one without a commit elsewhere
DiskOfTree(paths) ==
    [p \in {paths[k] : k \in 1..Len(paths)} |->
        [kind |-> "repo",
         repo |-> IF p = PathStr(<<NameW, NameA>>) THEN BusyRepo ELSE EmptyRepo]]

\* the one element of a singleton
Only(S) == CHOOSE x \in S : TRUE

\* _run_briefing from the work list on (cli.py 275-288), given the list
\* scan_repos returned
RenderResults(scan_results, worklist, output_json, verbose) ==
    LET wip_items == GetItems(worklist, FALSE)
        linked == {k \in 1..Len(scan_results) :
                      GetItemsForRepo(worklist, scan_results[k].path, FALSE) # <<>>}
        repo_items == [k \in linked |->
                          GetItemsForRepo(worklist, scan_results[k].path, FALSE)]
    IN  IF output_json
        THEN [out |-> <<RenderJson(scan_results, wip_items)>>, exit |-> 0]
        ELSE [out |-> <<RenderBriefing(scan_results, verbose, wip_items, repo_items)>>,
              exit |-> 0]

\* _run_briefing from the discovered paths on (cli.py 269-288)
BriefPaths(paths, worklist, output_json, verbose, now_) ==
    IF paths = <<>>
    THEN [out |-> <<Echo("No git repos found in configured directories.")>>,
          exit |-> 0]
    ELSE Only({IF scan.kind = "raise" THEN [out |-> <<>>, exit |-> 1]
               ELSE RenderResults(scan.results, worklist, output_json, verbose) :
               scan \in {ScanReposFrom(DiskOfTree(paths), paths, <<>>, 14,
                                       DefaultAgentsConfig, now_, 1, <<>>)}})

\* _run_briefing: what it prints and its exit code; the locals repo_paths
\* and results are computed once each
RunBriefing(config, fs_, worklist, output_json, verbose, now_) ==
    IF config.directories = <<>>
    THEN [out |-> <<Echo("No directories configured.")>>,   \* and a hint
          exit |-> 1]
    ELSE Only({BriefPaths(paths, worklist, output_json, verbose, now_) :
               paths \in {DiscoverRepos(fs_, config.directories, config.scan_depth)}})

\* trees without links and unreadable directories
BriefingTrees ==
    {f \in Filesystems : f.unlistable = {} /\ f.unsearchable = {} /\ f.links = <<>>}

\* work lists: no file, one open item, one done item; none is linked to a
\* repository
BriefingWorklists ==
    {[state |-> "missing", items |-> <<>>],
     SaveWorklist(<<WorkItem(1, "fix parser", 1, <<>>)>>),
     SaveWorklist(<<[WorkItem(1, "fix parser", 1, <<>>) EXCEPT
                        !.status = "done", !.completed_at = <<2>>]>>)}

BriefIdle ==
    /\ b_config = [directories |-> <<>>, scan_depth |-> 0]
    /\ b_fs = [dirs |-> {}, git |-> {}, unlistable |-> {}, unsearchable |-> {},
              files |-> {}, links |-> <<>>]
    /\ b_worklist = [state |-> "idle", items |-> <<>>]
    /\ b_json = FALSE /\ b_verbose = FALSE
    /\ b_out = <<>> /\ b_exit = 0 /\ b_pc = "idle"

BriefInit ==
    /\ b_config \in {[directories |-> d, scan_depth |-> 3] :
                        d \in {<<>>, <<<<NameW>>>>, <<<<NameGone>>>>,
                               <<<<NameW, NameA>>, <<NameW, NameB>>>>}}
    /\ b_fs \in BriefingTrees
    /\ b_worklist \in BriefingWorklists
    /\ b_json \in BOOLEAN
    /\ b_verbose \in BOOLEAN
    /\ b_out = <<>>
    /\ b_exit = 0
    /\ b_pc = "start"

\* `wip` / `wip scan`
RunBriefingCommand ==
    /\ b_pc = "start"
    /\ \E n \in NowInstants :
        LET run == RunBriefing(b_config, b_fs, b_worklist, b_json, b_verbose, n)
        IN  /\ b_out' = run.out
            /\ b_exit' = run.exit
    /\ b_pc' = "exited"
    /\ UNCHANGED <<b_config, b_fs, b_worklist, b_json, b_verbose>>
    /\ UNCHANGED briefRest

(***************************************************************************)
(* The provider registry (llm/registry.py).                                *)
(***************************************************************************)
\* PROVIDERS: name -> (class, environment variable of the API key)
PROVIDERS ==
    [n \in {"anthropic", "openai", "gemini"} |->
        CASE n = "anthropic" -> <<"AnthropicProvider", "ANTHROPIC_API_KEY">>
          [] n = "openai"    -> <<"OpenAIProvider", "OPENAI_API_KEY">>
          [] n = "gemini"    -> <<"GeminiProvider", "GEMINI_API_KEY">>]

\* DEFAULT_MODEL of each provider class
DefaultModel(class) ==
    CASE class = "AnthropicProvider" -> "claude-sonnet-4-5-20250929"
      [] class = "OpenAIProvider"    -> "gpt-4o"
      [] class = "GeminiProvider"    -> "gemini-2.0-flash"

\* os.environ.get(name, "")
EnvironGet(env, name) ==
    IF name \in DOMAIN env /\ env[name] # <<>> THEN env[name][1] ELSE ""

\* the variant that asks the generic variable before the provider's own
GenericFirst(key, env, env_var) ==
    IF key # "" THEN key
    ELSE IF EnvironGet(env, "WIP_LLM_API_KEY") # "" THEN EnvironGet(env, "WIP_LLM_API_KEY")
    ELSE EnvironGet(env, env_var)

\* api_key or os.environ.get(env_var, "") or os.environ.get("WIP_LLM_API_KEY", "")
ResolveKey(key, env, env_var) ==
    IF key # "" THEN key
    ELSE IF EnvironGet(env, env_var) # "" THEN EnvironGet(env, env_var)
    ELSE EnvironGet(env, "WIP_LLM_API_KEY")

\* cls(api_key=resolved_key, model=model): LLMProvider.__init__ behind the
\* class's own, which puts its default model for ""
NewProvider(class, key, model_) ==
    [kind |-> "provider", class |-> class, api_key |-> key,
     model |-> IF model_ # "" THEN model_ ELSE DefaultModel(class)]

\* get_provider
GetProvider(name, key, model_, env) ==
    IF name \notin DOMAIN PROVIDERS
    THEN [kind |-> "raise", exc |-> "LLMError", about |-> "unknown provider"]
    ELSE
        LET class        == PROVIDERS[name][1]
            env_var      == PROVIDERS[name][2]
            resolved_key == ResolveKey(key, env, env_var)
        IN  IF resolved_key = ""
            THEN [kind |-> "raise", exc |-> "LLMError", about |-> "no API key"]
            ELSE NewProvider(class, resolved_key, model_)

\* the variables of the environment that matter: each unset, empty, or set
\* to a key of its own
KeyVariables == {"ANTHROPIC_API_KEY", "OPENAI_API_KEY", "GEMINI_API_KEY", "WIP_LLM_API_KEY"}

Environments ==
    {e \in [KeyVariables -> {<<>>, <<"">>, <<"sk-own">>, <<"sk-generic">>}] :
        \A v \in KeyVariables :
            /\ e[v] = <<"sk-generic">> => v = "WIP_LLM_API_KEY"
            /\ e[v] = <<"sk-own">> => v # "WIP_LLM_API_KEY"}

LlmIdle ==
    /\ environ = <<>> /\ provider_name = "" /\ api_key = "" /\ model = ""
    /\ provider = [kind |-> "none"] /\ l_pc = "idle"

LlmInit ==
    /\ environ \in Environments
    /\ provider_name \in {"anthropic", "openai", "gemini", "mistral", ""}
    /\ api_key \in {"", "sk-explicit"}
    /\ model \in {"", "gpt-4o-mini"}
    /\ provider = [kind |-> "none"]
    /\ l_pc = "calling"

\* get_provider(provider_name, api_key, model)
GetProviderCall ==
    /\ l_pc = "calling"
    /\ LET out == GetProvider(provider_name, api_key, model, environ)
       IN  /\ provider' = out
           /\ l_pc' = IF out.kind = "raise" THEN "raised" ELSE "returned"
    /\ UNCHANGED <<environ, provider_name, api_key, model>>
    /\ UNCHANGED llmRest

(***************************************************************************)
(* Two processes calling add_item / complete_item on the same file        *)
(* (worklist.py 25-76).  Each call reads the file once (load_worklist)     *)
(* and writes it at most once (save_worklist); nothing is locked, so the   *)
(* accesses of the two processes interleave freely.                        *)
(***************************************************************************)
Procs == {1, 2}

\* the variant that keeps what the file holds and adds the items written
\* that the file does not hold yet
WriteMerged(old, new) ==
    LET kept == IF old.state = "ok" THEN old.items ELSE <<>>
    IN  [state |-> "ok",
         items |-> kept \o SelectSeq(new.items,
                      LAMBDA i : \A k \in 1..Len(kept) : kept[k] # i)]

\* Path.write_text: the file's content is replaced by the text written
WriteText(old, new) == new

\* add_item between its load and its save (lines 54-60)
AddItemLocal(items, description, repo_opt, time) ==
    LET item == WorkItem(NextId(items), description, time, repo_opt)
    IN  [items |-> Append(items, item), ret |-> <<item>>, save |-> TRUE]

\* complete_item between its load and its save (lines 68-73, 76)
CompleteItemLocal(items, item_id, time) ==
    LET hits == {k \in 1..Len(items) : items[k].id = item_id}
    IN  IF hits = {} THEN [items |-> items, ret |-> <<>>, save |-> FALSE]
        ELSE LET k == MinOf(hits) IN
             IF items[k].status = "done"
             THEN [items |-> items, ret |-> <<>>, save |-> FALSE]
             ELSE LET item == [items[k] EXCEPT !.status = "done",
                                               !.completed_at = <<time>>]
                  IN  [items |-> [items EXCEPT ![k] = item],
                       ret |-> <<item>>, save |-> TRUE]

\* the calls a process may make
RaceOps ==
    [name : {"add_item"}, description : Descriptions, repo : {<<>>}]
    \cup [name : {"complete_item"}, item_id : 1..MaxItems]

\* the files the processes may find: none, or what one or two earlier
\* add_item calls left
RaceFiles ==
    {[state |-> "missing", items |-> <<>>],
     AddItem([state |-> "missing", items |-> <<>>], "fix parser", <<>>, 1).file,
     AddItem(AddItem([state |-> "missing", items |-> <<>>],
                     "fix parser", <<>>, 1).file, "write docs", <<>>, 2).file}

RaceIdle ==
    /\ r_file = [state |-> "idle", items |-> <<>>]
    /\ r_init = [state |-> "idle", items |-> <<>>]
    /\ r_items = <<>> /\ r_op = <<>> /\ r_ret = <<>> /\ r_pc = <<>>
    /\ r_clock = 0 /\ r_log = <<>>

RaceInit ==
    /\ r_file \in RaceFiles
    /\ r_init = r_file
    /\ r_items = [p \in Procs |-> <<>>]
    /\ r_op = [p \in Procs |-> [name |-> "none"]]
    /\ r_ret = [p \in Procs |-> <<>>]
    /\ r_pc = [p \in Procs |-> "start"]
    /\ r_clock = 3
    /\ r_log = <<>>

\* process p enters add_item or complete_item: load_worklist, then the
\* work on its own list up to the save (or the return without one)
RaceLoad(p) ==
    /\ p \in DOMAIN r_pc /\ r_pc[p] = "start"
    /\ \E op \in RaceOps :
        LET items == LoadWorklist(r_file)
            out   == IF op.name = "add_item"
                     THEN AddItemLocal(items, op.description, op.repo, r_clock)
                     ELSE CompleteItemLocal(items, op.item_id, r_clock)
        IN  /\ r_op' = [r_op EXCEPT ![p] = op]
            /\ r_items' = [r_items EXCEPT ![p] = out.items]
            /\ r_ret' = [r_ret EXCEPT ![p] = out.ret]
            /\ r_pc' = [r_pc EXCEPT ![p] = IF out.save THEN "loaded" ELSE "done"]
            /\ r_clock' = IF out.save THEN r_clock + 1 ELSE r_clock
    /\ r_log' = Append(r_log, <<p, "load">>)
    /\ UNCHANGED <<r_file, r_init>>
    /\ UNCHANGED raceRest

\* process p reaches save_worklist(items) and returns
RaceSave(p) ==
    /\ p \in DOMAIN r_pc /\ r_pc[p] = "loaded"
    /\ r_file' = WriteText(r_file, SaveWorklist(r_items[p]))
    /\ r_pc' = [r_pc EXCEPT ![p] = "done"]
    /\ r_log' = Append(r_log, <<p, "save">>)
    /\ UNCHANGED <<r_init, r_items, r_op, r_ret, r_clock>>
    /\ UNCHANGED raceRest

RaceLoad1 == RaceLoad(1)
RaceLoad2 == RaceLoad(2)
RaceSave1 == RaceSave(1)
RaceSave2 == RaceSave(2)

(***************************************************************************)
(* save_config and load_config (config.py 58-122).                         *)
(*                                                                         *)
(* config.toml is the sequence of its lines.  A line is blank, a table     *)
(* header [name], or key = value; a value is written as a TOML string      *)
(* ("..."), integer or array of strings, and tomllib reads it back as a    *)
(* str, an int or a list.  A dict is a function from its keys.             *)
(***************************************************************************)
\* LLMConfig(), AgentsConfig(), WipConfig(): the dataclass defaults
DefaultLLMConfig == [provider |-> "", model |-> "", api_key_env |-> ""]

DefaultWipConfig ==
    [directories |-> <<>>, author |-> "", scan_depth |-> 3, recent_days |-> 14,
     llm |-> DefaultLLMConfig, agents |-> DefaultAgentsConfig]

\* what the f-strings write
TomlString(v)  == [type |-> "string", text |-> v]
TomlInteger(n) == [type |-> "integer", digits |-> ToString(n)]
TomlArray(vs)  == [type |-> "array", items |-> [k \in 1..Len(vs) |-> TomlString(vs[k])]]

BlankLine       == [kind |-> "blank"]
TableLine(name) == [kind |-> "table", name |-> name]
PairLine(k, v)  == [kind |-> "pair", key |-> k, value |-> v]

\* save_config: the lines written
SaveConfig(config) ==
    LET defaults == DefaultAgentsConfig
    IN  << PairLine("directories", TomlArray(config.directories)),
           PairLine("author", TomlString(config.author)),
           PairLine("scan_depth", TomlInteger(config.scan_depth)),
           PairLine("recent_days", TomlInteger(config.recent_days)) >>
        \o (IF config.llm.provider # ""
            THEN << BlankLine, TableLine("llm"),
                    PairLine("provider", TomlString(config.llm.provider)) >>
                 \o (IF config.llm.model # ""
                     THEN << PairLine("model", TomlString(config.llm.model)) >>
                     ELSE <<>>)
                 \o (IF config.llm.api_key_env # ""
                     THEN << PairLine("api_key_env", TomlString(config.llm.api_key_env)) >>
                     ELSE <<>>)
            ELSE <<>>)
        \o (IF \/ config.agents.authors # defaults.authors
               \/ config.agents.branch_patterns # defaults.branch_patterns
            THEN << BlankLine, TableLine("agents"),
                    PairLine("authors", TomlArray(config.agents.authors)),
                    PairLine("branch_patterns", TomlArray(config.agents.branch_patterns)) >>
            ELSE <<>>)

\* the Python value of a TOML value
RECURSIVE TomlValue(_)
TomlValue(v) ==
    IF v.type = "string" THEN v.text
    ELSE IF v.type = "integer" THEN CHOOSE n \in 0..MaxCount : ToString(n) = v.digits
    ELSE [k \in 1..Len(v.items) |-> TomlValue(v.items[k])]

EmptyDict == [k \in {} |-> 0]

\* d[k] = v
DictSet(d, k, v) == [x \in DOMAIN d \cup {k} |-> IF x = k THEN v ELSE d[x]]

\* d.get(k, default)
DictGet(d, k, default) == IF k \in DOMAIN d THEN d[k] ELSE default

\* tomllib.load: the lines from the k-th on; `table` is the table the keys
\* go to ("" for the top level)
RECURSIVE ParseToml(_, _, _, _)
ParseToml(lines, k, table, data) ==
    IF k > Len(lines) THEN data
    ELSE
        LET line == lines[k]
        IN  IF line.kind = "blank" THEN ParseToml(lines, k + 1, table, data)
            ELSE IF line.kind = "table"
            THEN ParseToml(lines, k + 1, line.name, DictSet(data, line.name, EmptyDict))
            ELSE IF table = ""
            THEN ParseToml(lines, k + 1, table,
                           DictSet(data, line.key, TomlValue(line.value)))
            ELSE ParseToml(lines, k + 1, table,
                           DictSet(data, table,
                                   DictSet(data[table], line.key, TomlValue(line.value))))

\* load_config; a missing file is <<>>
LoadConfig(file) ==
    IF file = <<>> THEN DefaultWipConfig
    ELSE
        LET data        == ParseToml(file, 1, "", EmptyDict)
            llm_data    == DictGet(data, "llm", EmptyDict)
            llm_config  == [provider    |-> DictGet(llm_data, "provider", ""),
                            model       |-> DictGet(llm_data, "model", ""),
                            api_key_env |-> DictGet(llm_data, "api_key_env", "")]
            agents_data == DictGet(data, "agents", EmptyDict)
            agents_defaults == DefaultAgentsConfig
            agents_config_ ==
                [authors |-> DictGet(agents_data, "authors", agents_defaults.authors),
                 branch_patterns |-> DictGet(agents_data, "branch_patterns",
                                             agents_defaults.branch_patterns)]
        IN  [directories |-> DictGet(data, "directories", <<>>),
             author      |-> DictGet(data, "author", ""),
             scan_depth  |-> DictGet(data, "scan_depth", 3),
             recent_days |-> DictGet(data, "recent_days", 14),
             llm         |-> llm_config,
             agents      |-> agents_config_]

\* the configurations saved: the defaults and other values in every
\* field, the [llm] fields empty or set one by one, [agents] the defaults,
\* other lists, both lists empty, or only one of the two changed
AgentsChoices ==
    {DefaultAgentsConfig, ClaudeOnlyConfig,
     [authors |-> <<>>, branch_patterns |-> <<>>],
     [DefaultAgentsConfig EXCEPT !.authors = ClaudeOnlyConfig.authors],
     [DefaultAgentsConfig EXCEPT !.branch_patterns = <<>>]}

WipConfigs ==
    [directories : {<<>>, <<"/w">>, <<"/w", "/srv/code">>},
     author      : {"", "alice"},
     scan_depth  : {0, 3},
     recent_days : {7, 14},
     llm         : [provider : {"", "anthropic"}, model : {"", "gpt-4o"},
                    api_key_env : {"", "MY_KEY"}],
     agents      : AgentsChoices]

ConfIdle ==
    /\ c_config = DefaultWipConfig /\ c_file = <<>>
    /\ c_loaded = DefaultWipConfig /\ c_pc = "idle"

\* before the first command there is no config.toml
ConfInit ==
    /\ c_config \in WipConfigs
    /\ c_file = <<>>
    /\ c_loaded = DefaultWipConfig
    /\ c_pc = "start"

\* save_config(config)
SaveConfigCall ==
    /\ c_pc = "start"
    /\ c_file' = SaveConfig(c_config)
    /\ c_pc' = "saved"
    /\ UNCHANGED <<c_config, c_loaded>>
    /\ UNCHANGED confRest

\* load_config(), before or after the save
LoadConfigCall ==
    /\ c_pc \in {"start", "saved"}
    /\ c_loaded' = LoadConfig(c_file)
    /\ c_pc' = IF c_pc = "saved" THEN "loaded" ELSE "defaults"
    /\ UNCHANGED <<c_config, c_file>>
    /\ UNCHANGED confRest

(***************************************************************************)
(* Specifications.                                                         *)
(***************************************************************************)
InitDetect == DetectInit /\ TimeIdle /\ DiscoverIdle /\ ScanIdle /\ WorkIdle /\ BriefIdle /\ LlmIdle /\ RaceIdle /\ ConfIdle
NextDetect == DetectAgentSessionsCall
SpecDetect == InitDetect /\ [][NextDetect]_vars

InitTime == TimeInit /\ DetectIdle /\ DiscoverIdle /\ ScanIdle /\ WorkIdle /\ BriefIdle /\ LlmIdle /\ RaceIdle /\ ConfIdle
NextTime == TimeAgoCall \/ ItemAgoCall
SpecTime == InitTime /\ [][NextTime]_vars

InitDiscover == DiscoverInit /\ DetectIdle /\ TimeIdle /\ ScanIdle /\ WorkIdle /\ BriefIdle /\ LlmIdle /\ RaceIdle /\ ConfIdle
NextDiscover == DiscoverRoot \/ DiscoverReturn
SpecDiscover == InitDiscover /\ [][NextDiscover]_vars

InitScan == ScanInit /\ DetectIdle /\ TimeIdle /\ DiscoverIdle /\ WorkIdle /\ BriefIdle /\ LlmIdle /\ RaceIdle /\ ConfIdle
NextScan == ScanReposStep \/ ScanReposReturn
SpecScan == InitScan /\ [][NextScan]_vars

InitWork == WorkInit /\ DetectIdle /\ TimeIdle /\ DiscoverIdle /\ ScanIdle /\ BriefIdle /\ LlmIdle /\ RaceIdle /\ ConfIdle
NextWork == AddItemCall \/ DoneCommand \/ GetItemsCall \/ GetItemsForRepoCall
SpecWork == InitWork /\ [][NextWork]_vars

InitBrief == BriefInit /\ DetectIdle /\ TimeIdle /\ DiscoverIdle /\ ScanIdle /\ WorkIdle /\ LlmIdle /\ RaceIdle /\ ConfIdle
NextBrief == RunBriefingCommand
SpecBrief == InitBrief /\ [][NextBrief]_vars

InitLlm == LlmInit /\ DetectIdle /\ TimeIdle /\ DiscoverIdle /\ ScanIdle /\ WorkIdle /\ BriefIdle /\ RaceIdle /\ ConfIdle
NextLlm == GetProviderCall
SpecLlm == InitLlm /\ [][NextLlm]_vars

InitRace == RaceInit /\ DetectIdle /\ TimeIdle /\ DiscoverIdle /\ ScanIdle /\ WorkIdle /\ BriefIdle /\ LlmIdle /\ ConfIdle
NextRace == RaceLoad1 \/ RaceLoad2 \/ RaceSave1 \/ RaceSave2
SpecRace == InitRace /\ [][NextRace]_vars

InitConf == ConfInit /\ DetectIdle /\ TimeIdle /\ DiscoverIdle /\ ScanIdle /\ WorkIdle /\ BriefIdle /\ LlmIdle /\ RaceIdle
NextConf == SaveConfigCall \/ LoadConfigCall
SpecConf == InitConf /\ [][NextConf]_vars

\* every component, each from its own initial states
Init == InitDetect \/ InitTime \/ InitDiscover \/ InitScan \/ InitWork \/ InitBrief \/ InitLlm \/ InitRace \/ InitConf
Next == NextDetect \/ NextTime \/ NextDiscover \/ NextScan \/ NextWork \/ NextBrief \/ NextLlm \/ NextRace \/ NextConf
Spec == Init /\ [][Next]_vars

(***************************************************************************)
(* What the claims about the detector speak of, stated from the            *)
(* repository and not from the walk.                                       *)
(***************************************************************************)
\* the places of a branch's history the walk reads: the newest MaxWalk,
\* up to the place where reading the history raises
Yielded(branch) ==
    {i \in 1..Len(branch.commits) :
        i <= MaxWalk /\ (branch.corrupt_at = 0 \/ i < branch.corrupt_at)}

HasAuthorMatch(author, config) ==
    \E p \in 1..Len(config.authors) :
        Contains(Lower(config.authors[p]), Lower(author))

HasBranchMatch(name, config) ==
    \E p \in 1..Len(config.branch_patterns) :
        StartsWith(name, config.branch_patterns[p])

\* the agent a commit belongs to: the author's when the author matches,
\* else the branch's when the branch is agent-named, else none (<<>>)
AttributedAgent(branch, i, config) ==
    IF HasAuthorMatch(branch.commits[i].author, config)
    THEN MatchAuthorAgent(branch.commits[i].author, config.authors)
    ELSE IF HasBranchMatch(branch.name, config)
    THEN MatchBranchAgent(branch.name, config.branch_patterns)
    ELSE <<>>

SessionsOf(agent, name) ==
    {j \in 1..Len(sessions) : sessions[j].agent = agent /\ sessions[j].branch = name}

SessionsOnBranch(name) == {j \in 1..Len(sessions) : sessions[j].branch = name}

\* the sum of f over S, value by value: each value times the number of
\* elements of S that have it
RECURSIVE SumValues(_, _, _)
SumValues(values, S, f) ==
    IF values = {} THEN 0
    ELSE LET v == CHOOSE w \in values : TRUE
         IN  v * Cardinality({x \in S : f[x] = v}) + SumValues(values \ {v}, S, f)

SumOver(S, f) == SumValues({f[x] : x \in S}, S, f)

StatusOfAge(age) ==
    IF age < 3600 * TicksPerSec THEN "active"
    ELSE IF age < 86400 * TicksPerSec THEN "recent"
    ELSE "stale"

\* C1 (as claimed): on an agent-named branch whose newest k commits are by
\* one author matching no agent-author pattern and whose next older commit
\* is by another author matching no pattern either, exactly one session is
\* emitted for the branch, for the branch's agent, with commit_count = k
\* and the status of the age of the newest of those k commits.
C1_PrefixStopsAtHumanCommit ==
    pc = "done" =>
        \A b \in 1..Len(repo.branches) :
            LET branch == repo.branches[b] IN
            \A k \in 1..(Len(branch.commits) - 1) :
                ( /\ HasBranchMatch(branch.name, agents_config)
                  /\ branch.corrupt_at = 0
                  /\ \A i \in 1..(k + 1) :
                        ~HasAuthorMatch(branch.commits[i].author, agents_config)
                  /\ \A i \in 1..k :
                        branch.commits[i].author = branch.commits[1].author
                  /\ branch.commits[k + 1].author # branch.commits[1].author )
                =>
                \E j \in 1..Len(sessions) :
                    /\ SessionsOnBranch(branch.name) = {j}
                    /\ sessions[j].agent =
                          MatchBranchAgent(branch.name, agents_config.branch_patterns)
                    /\ sessions[j].commit_count = k
                    /\ sessions[j].status =
                          StatusOfAge(now - TicksPerSec *
                              MaxOf({branch.commits[i].committed_date : i \in 1..k}))

C3_SessionsUniqueAndNonEmpty ==
    pc = "done" =>
        /\ \A j, k \in 1..Len(sessions) :
              (sessions[j].agent = sessions[k].agent
                  /\ sessions[j].branch = sessions[k].branch) => j = k
        /\ \A j \in 1..Len(sessions) : sessions[j].commit_count >= 1

\* two sessions on one branch, one of them of several commits
C3_Witness ==
    /\ pc = "done"
    /\ \E j, k \in 1..Len(sessions) :
          /\ j # k
          /\ sessions[j].branch = sessions[k].branch
          /\ sessions[j].commit_count >= 2

\* C4: each session's commit_count, first/last timestamps and
\* files_changed are the number, the minimum/maximum commit time and the
\* summed files counts of its commits, and its status is active, recent
\* or stale as the age of its newest commit is under 1 hour, under 24
\* hours, or not.
C4_SessionAggregatesAndStatus ==
    pc = "done" =>
        \A j \in 1..Len(sessions) :
            \E b \in 1..Len(repo.branches) :
                LET branch  == repo.branches[b]
                    s       == sessions[j]
                    members == {i \in Yielded(branch) :
                                  AttributedAgent(branch, i, agents_config) = s.agent}
                    times   == {branch.commits[i].committed_date : i \in members}
                    files   == [i \in members |->
                                  IF branch.commits[i].files < 0 THEN 0
                                  ELSE branch.commits[i].files]
                    age     == now - TicksPerSec * s.last_commit_ts
                IN  /\ branch.name = s.branch
                    /\ members # {}
                    /\ s.commit_count = Cardinality(members)
                    /\ \A t \in times : s.first_commit_ts <= t /\ t <= s.last_commit_ts
                    /\ s.first_commit_ts \in times
                    /\ s.last_commit_ts \in times
                    /\ s.files_changed = SumOver(members, files)
                    /\ age < 3600 * TicksPerSec => s.status = "active"
                    /\ (age >= 3600 * TicksPerSec /\ age < 86400 * TicksPerSec)
                          => s.status = "recent"
                    /\ age >= 86400 * TicksPerSec => s.status = "stale"

\* a session of two commits whose newest commit, exactly one hour old, is
\* not the first the walk read, and whose other commit has no stats
C4_Witness ==
    /\ pc = "done"
    /\ Len(sessions) = 1
    /\ sessions[1].commit_count = 2
    /\ sessions[1].first_commit_ts < sessions[1].last_commit_ts
    /\ repo.branches[1].commits[1].committed_date = sessions[1].first_commit_ts
    /\ repo.branches[1].commits[1].files < 0
    /\ sessions[1].files_changed = 2
    /\ now - TicksPerSec * sessions[1].last_commit_ts = 3600 * TicksPerSec
    /\ sessions[1].status = "recent"

(***************************************************************************)
(* Claims about _time_ago.                                                 *)
(***************************************************************************)
\* the label the thresholds on the elapsed whole seconds give
LabelOfSeconds(s) ==
    IF s < 60 THEN "just now"
    ELSE IF s < 3600 THEN ToString(s \div 60) \o "m ago"
    ELSE IF s < 86400 THEN ToString(s \div 3600) \o "h ago"
    ELSE ToString(s \div 86400) \o "d ago"

\* the elapsed time cut to whole seconds, toward zero
WholeSeconds(elapsed) ==
    IF elapsed >= 0 THEN elapsed \div TicksPerSec
    ELSE -((-elapsed) \div TicksPerSec)

\* C7: with s the elapsed whole seconds, truncated, _time_ago returns
\* "just now" for s < 60, "{s div 60}m ago" for s < 3600, "{s div 3600}h
\* ago" for s < 86400 and "{s div 86400}d ago" beyond; an instant in the
\* future of now gives "just now".
C7_TimeAgoThresholds ==
    t_pc = "done" =>
        /\ label1.text = LabelOfSeconds(WholeSeconds(t_now - t_then1))
        /\ label2.text = LabelOfSeconds(WholeSeconds(t_now - t_then2))
        /\ t_then1 > t_now => label1.text = "just now"

\* one tick short of two days is "1d ago", one tick short of a minute and
\* an instant in the future are "just now"
C7_Witness ==
    /\ t_pc = "done"
    /\ t_now - t_then1 = 2 * 86400 * TicksPerSec - 1
    /\ label1.text = "1d ago"
    /\ t_then2 > t_now
    /\ label2.text = "just now"

\* the duration a label denotes: its number times its unit
LabelSeconds(label) ==
    label.n * (CASE label.unit = "now" -> 0
                 [] label.unit = "m" -> 60
                 [] label.unit = "h" -> 3600
                 [] label.unit = "d" -> 86400)

\* C8: for t1 < t2 < now the label of t1 never denotes a smaller duration
\* than the label of t2.
C8_LabelMonotonic ==
    (t_pc = "done" /\ t_then1 < t_then2 /\ t_then2 < t_now) =>
        LabelSeconds(label1) >= LabelSeconds(label2)

\* an hour-old instant and one a tick younger: "1h ago" and "59m ago"
C8_Witness ==
    /\ t_pc = "done"
    /\ t_then1 < t_then2 /\ t_then2 < t_now
    /\ t_then2 = t_then1 + 1
    /\ label1.text = "1h ago"
    /\ label2.text = "59m ago"

(***************************************************************************)
(* Claims about discover_repos.                                            *)
(***************************************************************************)
\* the component names of the path a str denotes: str.split("/") without
\* the empty first piece
RECURSIVE SplitPath(_)
SplitPath(str) ==
    IF str = <<>> THEN <<>>
    ELSE
        LET n    == Len(str)
            cuts == {i \in 1..n : str[i] = "/"}
            last == MaxOf(cuts)
        IN  Append(SplitPath(SubSeq(str, 1, last - 1)), SubSeq(str, last + 1, n))

\* path p lies inside path q
Inside(p, q) == StartsWith(p, q \o <<"/">>)

\* C5 (as claimed): whatever the roots and the depth, no returned path
\* lies inside another returned path.
C5_NoNestedRepoReturned ==
    d_pc = "returned" =>
        \A i, j \in 1..Len(discovered) : ~Inside(discovered[i], discovered[j])

\* C6 (as claimed): the returned list is sorted ascending and no two of
\* its entries have the same canonical path.
C6_SortedNoDuplicateCanonical ==
    d_pc = "returned" =>
        /\ \A i, j \in 1..Len(discovered) :
              i < j => ~StrLess(discovered[j], discovered[i])
        /\ \A i, j \in 1..Len(discovered) :
              i # j => Canonical(fs, SplitPath(discovered[i]))
                          # Canonical(fs, SplitPath(discovered[j]))


\* the input path scans to a snapshot: scan_repo returns a RepoStatus
ScansToStatus(p) ==
    \E n \in NowInstants :
        ScanRepo(disk, p, author_filter, 14, DefaultAgentsConfig, n).kind = "status"

\* the input path resolves to a valid repository at call time
ResolvesToRepo(p) == p \in DOMAIN disk /\ disk[p].kind = "repo"

\* C9: scan_repos never raises for an input path that does not resolve to a
\* valid repository (a directory that is no git repository, or a path that
\* no longer exists): such a path is omitted and the scan goes on to the
\* other paths.  Stated of the path under scan when scan_repos raises: it
\* is then a path that does resolve to a repository.
C9_InvalidPathsNeverRaise ==
    s_pc = "raised" => ResolvesToRepo(repo_paths[s_next])

PathsOf(list) == [i \in 1..Len(list) |-> list[i].path]

\* C10: the list of scan_repos holds one snapshot per input path that
\* scanned successfully, each with its input path as its path field, in the
\* order of the input list; this holds of the list after every turn of the
\* loop for the paths scanned so far, and so of the list returned.
C10_ResultsInInputOrder ==
    s_pc \in {"scanning", "returned"} =>
        PathsOf(results) = SelectSeq(SubSeq(repo_paths, 1, s_next - 1), ScansToStatus)

\* scan_repos has returned two snapshots whose input order is not the
\* sorted order, having omitted a directory that is no repository
C10_Witness ==
    /\ s_pc = "returned"
    /\ repo_paths = <<PathB, PathDocs, PathA>>
    /\ PathsOf(results) = <<PathB, PathA>>


\* the snapshot scan_repo would produce for the path under scan
SnapshotOf(p, n) ==
    ScanRepo(disk, p, author_filter, 14, DefaultAgentsConfig, n)

\* C11: on a valid repository the failure of a sub-query never leaves
\* scan_repo: scan_repos does not raise while the path under scan resolves
\* to a valid repository (the failed field is degraded to its default and
\* the snapshot is still returned).
C11_SubQueryFailureNeverPropagates ==
    s_pc = "raised" => ~ResolvesToRepo(repo_paths[s_next])

\* the repository of the i-th input path, when it is one
RepoAt(i) == disk[repo_paths[i]].repo

\* C12: for a repository without a commit and with n untracked files the
\* snapshot has last_commit_ago = "", dirty_files = 0, staged_files = 0,
\* untracked_files = n, no recent commit, and changed_files is one
\* untracked/untracked entry per untracked file and nothing else.
C12_UnbornRepoSnapshot ==
    \A i \in 1..Len(results) :
        LET k == CHOOSE k \in 1..Len(repo_paths) : repo_paths[k] = results[i].path
            r == RepoAt(k)
            snap == results[i]
        IN  ~HeadIsValid(r) =>
                /\ snap.last_commit_ago = ""
                /\ snap.dirty_files = 0
                /\ snap.staged_files = 0
                /\ snap.untracked_files = Len(r.untracked)
                /\ snap.recent_commits = <<>>
                /\ Len(snap.changed_files) = Len(r.untracked)
                /\ \A j \in 1..Len(r.untracked) :
                      /\ snap.changed_files[j].path = r.untracked[j]
                      /\ snap.changed_files[j].status = "untracked"
                      /\ snap.changed_files[j].stage = "untracked"


(***************************************************************************)
(* The latest snapshot: when the latest scan_repo call returned a          *)
(* RepoStatus, it is the last element of results, it was made of the       *)
(* repository at the path before s_next, and its "now" is s_now.           *)
(***************************************************************************)
LastScanOk ==
    /\ s_pc \in {"scanning", "returned"}
    /\ s_next > 1
    /\ ScansToStatus(repo_paths[s_next - 1])

LastRepo == RepoAt(s_next - 1)

LastSnapshot == results[Len(results)]

\* the age of a commit time at the latest scan, in ticks
AgeAtScan(ts) == s_now - ts * TicksPerSec

\* the commit passes the author filter of the scan
PassesFilter(commit) ==
    \/ author_filter = <<>>
    \/ \E k \in 0..(Len(commit.author) - Len(author_filter)) :
          \A j \in 1..Len(author_filter) :
              LowerChar(commit.author[k + j]) = LowerChar(author_filter[j])

\* the commits of the newest 50 from HEAD that lie before the first one
\* older than 24 hours
FreshPrefix(history) ==
    LET budget == IF Len(history) < 50 THEN Len(history) ELSE 50
        old    == {i \in 1..budget :
                      AgeAtScan(history[i].committed_date) > 86400 * TicksPerSec}
    IN  SubSeq(history, 1, IF old = {} THEN budget ELSE MinOf(old) - 1)

\* C13: recent_commits is, in history order, the commits passing the
\* author filter within the longest prefix of the newest 50 commits from
\* HEAD in which every commit is at most 24 hours old; the first older
\* commit stops the walk whether or not it passes the filter, commits
\* failing the filter use up the budget of 50, and nothing behind the
\* stopping point is returned.
C13_RecentCommitsFreshPrefix ==
    LastScanOk /\ HeadIsValid(LastRepo) =>
        LET expected == SelectSeq(FreshPrefix(HeadBranch(LastRepo).commits), PassesFilter)
            got      == LastSnapshot.recent_commits
        IN  /\ Len(got) = Len(expected)
            /\ \A i \in 1..Len(got) :
                  /\ got[i].timestamp = expected[i].committed_date
                  /\ got[i].sha = SubSeq(expected[i].hexsha, 1, 7)
                  /\ got[i].message = expected[i].message[1]
                  /\ got[i].ago = TimeAgo(s_now, expected[i].committed_date * TicksPerSec)

\* with the filter "alice": a fresh commit by Alice is returned, the walk
\* stops at a commit older than 24 hours that fails the filter, and a fresh
\* commit by Alice behind it is not returned
C13_Witness ==
    /\ LastScanOk
    /\ author_filter # <<>>
    /\ LET h == HeadBranch(LastRepo).commits
       IN  /\ Len(h) = 3
           /\ PassesFilter(h[1]) /\ AgeAtScan(h[1].committed_date) \div TicksPerSec = 1800
           /\ ~PassesFilter(h[2]) /\ AgeAtScan(h[2].committed_date) > 86400 * TicksPerSec
           /\ PassesFilter(h[3]) /\ AgeAtScan(h[3].committed_date) < 86400 * TicksPerSec
    /\ Len(LastSnapshot.recent_commits) = 1
    /\ LastSnapshot.recent_commits[1].ago.text = "30m ago"

\* C14: recent_commits is ordered most-recent-first: each entry's timestamp
\* is greater than or equal to the next entry's, for every history from
\* HEAD, those whose commit times are not monotone along the parent chain
\* included.
C14_RecentCommitsNewestFirst ==
    LastScanOk =>
        \A i \in 1..(Len(LastSnapshot.recent_commits) - 1) :
            LastSnapshot.recent_commits[i].timestamp
                >= LastSnapshot.recent_commits[i + 1].timestamp

\* the places in repo.branches of the branches recent_branches must hold:
\* not the current branch, tip read, tip within recent_days * 86400
\* seconds of "now", the boundary included
RecentPlaces(r) ==
    {b \in 1..Len(r.branches) :
        /\ r.branches[b].name # r.head
        /\ r.branches[b].corrupt_at # 1
        /\ AgeAtScan(r.branches[b].commits[1].committed_date) <= 14 * 86400 * TicksPerSec}

\* C15: recent_branches holds exactly the local branches other than the
\* current one whose tip is within recent_days * 86400 seconds of the
\* scan's "now" (boundary included), each once with its tip timestamp, by
\* tip timestamp descending; the current branch never appears, and under a
\* detached HEAD no branch is removed as current.
C15_RecentBranchesExact ==
    LastScanOk =>
        LET r   == LastRepo
            got == LastSnapshot.recent_branches
        IN  /\ Len(got) = Cardinality(RecentPlaces(r))
            /\ \A b \in RecentPlaces(r) :
                  \E i \in 1..Len(got) :
                      /\ got[i].name = r.branches[b].name
                      /\ got[i].timestamp = r.branches[b].commits[1].committed_date
            /\ \A i \in 1..Len(got) : got[i].name # r.head
            /\ \A i \in 1..(Len(got) - 1) : got[i].timestamp >= got[i + 1].timestamp

\* under a detached HEAD both branches are listed, the later tip first
\* though it is the second of repo.branches
C15_Witness ==
    /\ LastScanOk
    /\ LastRepo.head = <<>>
    /\ Len(LastRepo.branches) = 2
    /\ Len(LastSnapshot.recent_branches) = 2
    /\ LastSnapshot.recent_branches[1].name = LastRepo.branches[2].name
    /\ LastSnapshot.recent_branches[1].timestamp > LastSnapshot.recent_branches[2].timestamp


\* the items the work list file holds
Persisted == LoadWorklist(w_file)

\* this step is a call of add_item: only add_item lengthens the file
IsAddStep == w_op'.name = "add_item" /\ w_file' # w_file

\* C16: add_item assigns id = (the largest id among all persisted items,
\* open or done) + 1, or 1 when there is none; the new id is larger than
\* every id assigned before, so the ids of successive add_item calls
\* increase strictly and the id of a done item is never assigned again.
C16_AddItemIdsIncrease ==
    [][IsAddStep =>
          LET ids == {Persisted[k].id : k \in 1..Len(Persisted)}
              new == w_ret'[1]
          IN  /\ new.id = (IF ids = {} THEN 0 ELSE MaxOf(ids)) + 1
              /\ \A i \in ids : i < new.id
              /\ w_file'.items = Append(Persisted, new)]_vars

\* add_item has just numbered an item 2 while item 1, the only other one,
\* is done
C16_Witness ==
    /\ w_op.name = "add_item"
    /\ Len(Persisted) = 2
    /\ Persisted[1].id = 1 /\ Persisted[1].status = "done"
    /\ w_ret[1].id = 2 /\ w_ret[1].status = "open"

\* this step is a run of the `done` command that changed something
IsDoneStep ==
    /\ w_op'.name = "complete_item"
    /\ <<w_file, w_op, w_ret, w_wrote, w_exit>>' # <<w_file, w_op, w_ret, w_wrote, w_exit>>

\* C17: complete_item(id) on an open item sets its status to done, stamps
\* completed_at, writes the list and returns the item; on an item already
\* done, or on no item, it returns not-found and writes nothing, so a
\* second call in a row on the same id is a no-op returning not-found; the
\* `done` command then exits non-zero.
C17_CompleteItemOnce ==
    [][IsDoneStep =>
          LET item_id == w_op'.item_id
              open    == {k \in 1..Len(Persisted) :
                             Persisted[k].id = item_id /\ Persisted[k].status = "open"}
          IN  IF open # {}
              THEN \E k \in open :
                      LET item == [Persisted[k] EXCEPT !.status = "done",
                                                       !.completed_at = <<w_clock>>]
                      IN  /\ w_ret' = <<item>>
                          /\ w_wrote'
                          /\ w_file' = [state |-> "ok",
                                        items |-> [Persisted EXCEPT ![k] = item]]
                          /\ w_exit' = 0
              ELSE /\ w_ret' = <<>>
                   /\ ~w_wrote'
                   /\ w_file' = w_file
                   /\ w_exit' # 0]_vars

\* the `done` command has run on item 1, which was done already: not
\* found, nothing written, exit code 1
C17_Witness ==
    /\ w_op.name = "complete_item" /\ w_op.item_id = 1
    /\ \E k \in 1..Len(Persisted) : Persisted[k].id = 1 /\ Persisted[k].status = "done"
    /\ w_ret = <<>>
    /\ ~w_wrote
    /\ w_exit = 1

\* C18: status is a one-way transition: no operation removes an item, an
\* item that is done stays done with the same completed_at, and an item's
\* id, description, created_at and repo never change.
C18_DoneIsFinal ==
    [][LET after == LoadWorklist(w_file')
       IN  /\ Len(after) >= Len(Persisted)
           /\ \A k \in 1..Len(Persisted) :
                 /\ after[k].id = Persisted[k].id
                 /\ after[k].description = Persisted[k].description
                 /\ after[k].created_at = Persisted[k].created_at
                 /\ after[k].repo = Persisted[k].repo
                 /\ Persisted[k].status = "done" =>
                       /\ after[k].status = "done"
                       /\ after[k].completed_at = Persisted[k].completed_at]_vars

\* two items are done, the first since before the second was created, and
\* the `done` command has just been run on the first again
C18_Witness ==
    /\ Len(Persisted) = 2
    /\ Persisted[1].status = "done" /\ Persisted[2].status = "done"
    /\ Persisted[1].completed_at[1] < Persisted[2].created_at
    /\ w_op.name = "complete_item" /\ w_op.item_id = Persisted[1].id


\* C19: the scan-and-display command run with --json, when discovery finds
\* no repository and the work list holds no item, prints the JSON document
\* {"repos": [], "worklist": []} and nothing else.
C19_EmptyJsonDocument ==
    (/\ b_pc = "exited"
     /\ b_json
     /\ b_config.directories # <<>>
     /\ DiscoverRepos(b_fs, b_config.directories, b_config.scan_depth) = <<>>
     /\ LoadWorklist(b_worklist) = <<>>)
        => b_out = <<[kind |-> "json", repos |-> <<>>, worklist |-> <<>>]>>


\* the environment variable of a registered provider's own key
OwnVariable ==
    CASE provider_name = "anthropic" -> "ANTHROPIC_API_KEY"
      [] provider_name = "openai"    -> "OPENAI_API_KEY"
      [] provider_name = "gemini"    -> "GEMINI_API_KEY"

\* the variable is set to a non-empty value
IsSet(v) == environ[v] # <<>> /\ environ[v] # <<"">>

\* C20: get_provider takes the credential from the explicit api_key
\* argument when it is non-empty, else from the provider's own environment
\* variable when that is non-empty, else from WIP_LLM_API_KEY; when none is
\* non-empty, or the provider name is not registered, it raises LLMError
\* and instantiates no provider.
C20_CredentialOrder ==
    l_pc \in {"returned", "raised"} =>
        IF provider_name \notin {"anthropic", "openai", "gemini"}
        THEN l_pc = "raised" /\ provider.kind = "raise" /\ provider.exc = "LLMError"
        ELSE IF api_key # ""
        THEN l_pc = "returned" /\ provider.kind = "provider" /\ provider.api_key = api_key
        ELSE IF IsSet(OwnVariable)
        THEN /\ l_pc = "returned" /\ provider.kind = "provider"
             /\ provider.api_key = environ[OwnVariable][1]
        ELSE IF IsSet("WIP_LLM_API_KEY")
        THEN /\ l_pc = "returned" /\ provider.kind = "provider"
             /\ provider.api_key = environ["WIP_LLM_API_KEY"][1]
        ELSE l_pc = "raised" /\ provider.kind = "raise" /\ provider.exc = "LLMError"

\* without an explicit key and with both variables set, the openai
\* provider was built with the key of OPENAI_API_KEY
C20_Witness ==
    /\ l_pc = "returned"
    /\ provider_name = "openai"
    /\ api_key = ""
    /\ environ["OPENAI_API_KEY"] = <<"sk-own">>
    /\ environ["WIP_LLM_API_KEY"] = <<"sk-generic">>
    /\ provider.class = "OpenAIProvider"
    /\ provider.api_key = "sk-own"

(***************************************************************************)
(* The work-item file under two concurrent calls.                          *)
(***************************************************************************)
BothDone == r_pc = [p \in Procs |-> "done"]

\* the places of the log where p saved and where p loaded
SavePlace(p) == {k \in 1..Len(r_log) : r_log[k] = <<p, "save">>}
LoadPlace(p) == {k \in 1..Len(r_log) : r_log[k] = <<p, "load">>}

\* both calls wrote, and both loaded the file before either wrote it
LoadedBeforeEitherSaved ==
    /\ \A p \in Procs : SavePlace(p) # {} /\ LoadPlace(p) # {}
    /\ \A p, q \in Procs : MaxOf(LoadPlace(p)) < MinOf(SavePlace(q))

LaterSaver   == CHOOSE p \in Procs : \A q \in Procs : MaxOf(SavePlace(q)) <= MaxOf(SavePlace(p))
EarlierSaver == CHOOSE p \in Procs : p # LaterSaver

\* the update of p's call can be seen in the file: the item it added is
\* there, or the item it completed is done with its completion time
UpdateInFile(p) ==
    \E k \in 1..Len(r_file.items) : r_file.items[k] = r_ret[p][1]

\* C21: when two add_item / complete_item calls both load the file before
\* either saves, the later save overwrites the earlier one: the file ends
\* as the later saver's list made from the file both found, the earlier
\* saver's update is not in it, and two add_item calls returned the same id.
C21_ConcurrentCallsLoseAnUpdate ==
    (BothDone /\ LoadedBeforeEitherSaved) =>
        /\ r_file = SaveWorklist(r_items[LaterSaver])
        /\ Len(r_file.items) <= Len(LoadWorklist(r_init)) + 1
        /\ UpdateInFile(LaterSaver)
        /\ ~UpdateInFile(EarlierSaver)
        /\ (\A p \in Procs : r_op[p].name = "add_item")
             => r_ret[1][1].id = r_ret[2][1].id

\* two add_item calls that interleaved so, with one item left of the two
C21_Witness ==
    /\ BothDone /\ LoadedBeforeEitherSaved
    /\ \A p \in Procs : r_op[p].name = "add_item"
    /\ r_ret[1][1].id = r_ret[2][1].id
    /\ Len(r_file.items) = Len(LoadWorklist(r_init)) + 1
    /\ ~UpdateInFile(EarlierSaver)

\* an add_item and a complete_item that interleaved so: one is lost
C21_WitnessMixed ==
    /\ BothDone /\ LoadedBeforeEitherSaved
    /\ r_op[1].name # r_op[2].name
    /\ ~UpdateInFile(EarlierSaver)

(***************************************************************************)
(* The work-item age label and the scanner's label.                        *)
(***************************************************************************)
\* C22: for every elapsed time (negative, fractional, at and around every
\* threshold) the label _item_ago gives a work item equals the label
\* _time_ago gives a timestamp of the same age.
C22_ItemAgoEqualsTimeAgo ==
    (t_pc = "done" /\ item_label # NoLabel) => item_label = label1

\* both were called for an age of a whole number of minutes less half a
\* second, and for an age before the clock's reading
C22_Witness ==
    /\ t_pc = "done" /\ item_label # NoLabel
    /\ (t_now - t_then1) % TicksPerSec # 0
    /\ (t_now - t_then1 + 1) % (60 * TicksPerSec) = 0
    /\ item_label.unit = "m"

C22_WitnessNegative ==
    /\ t_pc = "done" /\ item_label # NoLabel
    /\ t_now - t_then1 < 0
    /\ item_label = label1

(***************************************************************************)
(* The walk of an agent-named branch.                                      *)
(***************************************************************************)
\* the places of the walk whose commit has no agent at all
Unattributed(branch, config) ==
    {i \in Yielded(branch) : AttributedAgent(branch, i, config) = <<>>}

\* C23 (as claimed): on an agent-named branch the walk stops at the first
\* commit without any agent, so that no commit behind it is counted in a
\* session, and the session of the branch's agent is a contiguous newest
\* prefix of the history: its commits are the newest commit_count ones.
C23_AgentBranchSessionIsNewestPrefix ==
    pc = "done" =>
        \A b \in 1..Len(repo.branches) :
            LET branch == repo.branches[b]
                agent  == MatchBranchAgent(branch.name, agents_config.branch_patterns)
            IN  (HasBranchMatch(branch.name, agents_config) /\ branch.corrupt_at = 0) =>
                /\ Unattributed(branch, agents_config) # {} =>
                     LET u == MinOf(Unattributed(branch, agents_config))
                     IN  SumOver(SessionsOnBranch(branch.name),
                                 [j \in 1..Len(sessions) |-> sessions[j].commit_count])
                            = u - 1
                /\ \A j \in SessionsOf(agent, branch.name) :
                     \A i \in 1..sessions[j].commit_count :
                        AttributedAgent(branch, i, agents_config) = agent

(***************************************************************************)
(* What discover_repos is to return, stated from the directory tree.       *)
(***************************************************************************)
\* the directories k levels below p, as paths through p
RECURSIVE LevelsBelow(_, _, _)
LevelsBelow(fs_, P, k) ==
    IF k = 0 \/ P = {} THEN P
    ELSE P \cup LevelsBelow(fs_,
                  {q \in UNION {{Append(p, n) : n \in EntryNames(fs_, p)} : p \in P} :
                      IsDir(fs_, q)},
                  k - 1)

\* the roots that exist as directories, canonical
ExistingRoots ==
    {r \in {Canonical(fs, directories[i]) : i \in 1..Len(directories)} : IsDir(fs, r)}

\* D is to be returned on account of root R: D holds a marker, no directory
\* from R down to D's parent holds one or is unlistable, and no name below
\* R on the way to D is hidden or a noise name
ReturnedFrom(R, D) ==
    /\ HasGitMarker(fs, D)
    /\ \A k \in Len(R)..(Len(D) - 1) :
          /\ ~HasGitMarker(fs, SubSeq(D, 1, k))
          /\ Canonical(fs, SubSeq(D, 1, k)) \notin fs.unlistable
    /\ \A k \in (Len(R) + 1)..Len(D) : ~Skipped(D[k])

ToReturn ==
    {PathStr(D) : D \in UNION {{D \in LevelsBelow(fs, {R}, depth) : ReturnedFrom(R, D)} :
                                  R \in ExistingRoots}}

\* C24 (as claimed): discover_repos raises no error, whatever directories
\* are missing, are files or cannot be read, and returns exactly the
\* directories that hold a marker, lie at most depth levels below an
\* existing root, have no marker in a directory above them from the root
\* down, and no hidden or noise name on the way below the root.
C24_DiscoverExactlyTheRoots ==
    /\ d_pc # "raised"
    /\ d_pc = "returned" => {discovered[i] : i \in 1..Len(discovered)} = ToReturn

\* the same without the directories that cannot be searched: what is
\* returned is exactly that set
C24_ExactWhenSearchable ==
    (d_pc = "returned" /\ fs.unsearchable = {}) =>
        {discovered[i] : i \in 1..Len(discovered)} = ToReturn

(***************************************************************************)
(* The counters of a snapshot and its list of changed files.               *)
(***************************************************************************)
StageCount(snap, stage) ==
    Cardinality({j \in 1..Len(snap.changed_files) : snap.changed_files[j].stage = stage})

\* C25 (as claimed): in every snapshot scan_repo returns, dirty_files,
\* staged_files and untracked_files are the numbers of changed_files
\* entries of stage unstaged, staged and untracked, whatever the state of
\* the repository, a repository without a commit whose index holds
\* entries included.
C25_CountersAgreeWithChangedFiles ==
    \A i \in 1..Len(results) :
        /\ results[i].dirty_files = StageCount(results[i], "unstaged")
        /\ results[i].staged_files = StageCount(results[i], "staged")
        /\ results[i].untracked_files = StageCount(results[i], "untracked")

\* the same for the repositories that have a commit
C25_AgreeWhenHeadIsValid ==
    \A i \in 1..Len(results) :
        LET k == CHOOSE k \in 1..Len(repo_paths) : repo_paths[k] = results[i].path
        IN  HeadIsValid(RepoAt(k)) =>
              /\ results[i].dirty_files = StageCount(results[i], "unstaged")
              /\ results[i].staged_files = StageCount(results[i], "staged")
              /\ results[i].untracked_files = StageCount(results[i], "untracked")

(***************************************************************************)
(* The status of a session and the label of its newest commit.             *)
(***************************************************************************)
\* the label is "just now" or "<n>m ago", "<n>h ago", "<n>d ago"
IsJustNow(label) == label.text = "just now"
IsLabelOf(label, unit) ==
    \E n \in 0..(label.n + 1) : label.text = ToString(n) \o unit \o " ago"

\* C26: for every emitted session the status agrees with the label of the
\* newest commit, at exactly one hour and exactly 24 hours too: active
\* exactly when the label is "just now" or an "m ago" label, recent exactly
\* when it is an "h ago" label, stale exactly when it is a "d ago" label.
C26_StatusAgreesWithLabel ==
    pc = "done" =>
        \A j \in 1..Len(sessions) :
            LET s == sessions[j] IN
            /\ s.status \in {"active", "recent", "stale"}
            /\ s.status = "active" <=>
                  (IsJustNow(s.last_commit_ago) \/ IsLabelOf(s.last_commit_ago, "m"))
            /\ s.status = "recent" <=> IsLabelOf(s.last_commit_ago, "h")
            /\ s.status = "stale" <=> IsLabelOf(s.last_commit_ago, "d")

\* a session whose newest commit is exactly one hour old: recent, "1h ago"
C26_Witness ==
    /\ pc = "done"
    /\ \E j \in 1..Len(sessions) :
          /\ now - TicksPerSec * sessions[j].last_commit_ts = 3600 * TicksPerSec
          /\ sessions[j].status = "recent"
          /\ sessions[j].last_commit_ago.text = "1h ago"

\* a session whose newest commit is exactly 24 hours old: stale, "1d ago"
C26_WitnessDay ==
    /\ pc = "done"
    /\ \E j \in 1..Len(sessions) :
          /\ now - TicksPerSec * sessions[j].last_commit_ts = 86400 * TicksPerSec
          /\ sessions[j].status = "stale"
          /\ sessions[j].last_commit_ago.text = "1d ago"

(***************************************************************************)
(* What the work-item operations leave alone.                              *)
(***************************************************************************)
\* the item but for its status and its completion time
Unstamped(item) == [item EXCEPT !.status = "open", !.completed_at = <<>>]

\* C27: a successful complete_item(id) changes only status and completed_at
\* of the item of that id and leaves every other item, the number of items
\* and their order as they were; add_item only appends one item at the end
\* and leaves the items there were unchanged; get_items and
\* get_items_for_repo never write the file.
C27_OperationsFrame ==
    [][LET before == LoadWorklist(w_file)
           after  == LoadWorklist(w_file')
       IN  /\ (w_op'.name = "complete_item" /\ w_ret' # <<>>) =>
                 /\ Len(after) = Len(before)
                 /\ \A k \in 1..Len(before) :
                       IF before[k].id = w_op'.item_id
                       THEN Unstamped(after[k]) = Unstamped(before[k])
                       ELSE after[k] = before[k]
           /\ w_op'.name = "add_item" =>
                 IF w_exc' = ""
                 THEN /\ Len(after) = Len(before) + 1
                      /\ SubSeq(after, 1, Len(before)) = before
                 ELSE w_file' = w_file
           /\ w_op'.name \in {"get_items", "get_items_for_repo"} =>
                 /\ w_file' = w_file
                 /\ ~w_wrote']_vars

\* item 2 of two has just been completed and item 1 is still open
C27_Witness ==
    /\ w_op.name = "complete_item" /\ w_op.item_id = 2 /\ w_ret # <<>>
    /\ Len(Persisted) = 2
    /\ Persisted[1].status = "open" /\ Persisted[2].status = "done"

\* a listing has just run on a file holding a done item
C27_WitnessListing ==
    /\ w_op.name = "get_items_for_repo" /\ ~w_wrote
    /\ Len(Persisted) = 2 /\ Persisted[1].status = "done"

(***************************************************************************)
(* The operations on a work-list file that cannot be read or decoded.      *)
(***************************************************************************)
\* the file exists and reading it or decoding it as JSON fails
Undecodable(file) == file.state \in {"corrupt", "undecodable", "unreadable"}

\* C28 (as claimed): on a file that exists but cannot be read or decoded
\* as JSON no operation raises: get_items and get_items_for_repo return no
\* item, complete_item returns not-found and leaves the file as it is, and
\* add_item replaces the content by a one-element list whose item has id 1.
C28_UndecodableFileIsEmptyList ==
    [][Undecodable(w_file) =>
          /\ w_exc' = ""
          /\ w_op'.name \in {"get_items", "get_items_for_repo"} => w_ret' = <<>>
          /\ w_op'.name = "complete_item" => (w_ret' = <<>> /\ w_file' = w_file)
          /\ w_op'.name = "add_item" =>
                /\ w_file'.state = "ok"
                /\ Len(w_file'.items) = 1
                /\ w_file'.items[1].id = 1
                /\ w_ret' = <<w_file'.items[1]>>]_vars

\* the same for a file of text that is not JSON
C28_HoldsForTextThatIsNotJson ==
    [][w_file.state = "corrupt" =>
          /\ w_exc' = ""
          /\ w_op'.name \in {"get_items", "get_items_for_repo"} => w_ret' = <<>>
          /\ w_op'.name = "complete_item" => (w_ret' = <<>> /\ w_file' = w_file)
          /\ w_op'.name = "add_item" =>
                /\ w_file'.state = "ok"
                /\ Len(w_file'.items) = 1
                /\ w_file'.items[1].id = 1
                /\ w_ret' = <<w_file'.items[1]>>]_vars

(***************************************************************************)
(* Saving a configuration and loading it again.                            *)
(***************************************************************************)
\* C29 (as claimed): for every WipConfig c, load_config after
\* save_config(c) returns a config equal to c in every field, also when
\* c.agents is the built-in defaults (no [agents] section is written) and
\* when c.llm.provider is empty while c.llm.model or c.llm.api_key_env is
\* set.
C29_ConfigRoundTrip ==
    c_pc = "loaded" => c_loaded = c_config

\* the same for the configurations whose [llm] section is written or has
\* nothing to write
C29_RoundTripWithProvider ==
    (c_pc = "loaded" /\ (c_config.llm.provider # "" \/ c_config.llm = DefaultLLMConfig))
        => c_loaded = c_config

====
